---- MODULE Spec2Model ----
(***************************************************************************)
(* A model of decipi's networking core (net/src/lib.rs, message.rs,       *)
(* file.rs) and of its evaluation aggregator (net/src/common.rs).         *)
(*                                                                         *)
(* The module holds several specifications over one set of variables;     *)
(* each specification moves the variables of one subsystem and leaves     *)
(* the others at their initial values:                                    *)
(*   SpecEval   EvaluationInfo (common.rs)                                *)
(*   SpecFile   FileStore (file.rs)                                       *)
(*   SpecTime   is_timestamp_valid (message.rs)                           *)
(*   SpecCodec  the wire envelopes of message.rs                          *)
(*   SpecNet    two Net instances and the datagrams between them (lib.rs) *)
(***************************************************************************)
EXTENDS Integers, Naturals, Sequences, FiniteSets, TLC

VARIABLES
    info,        \* EvaluationInfo.0 : Vec<SingleEvaluationInfo>
    file_parts,  \* FileStore.file_parts : FileHash -> FileParts
    full_files,  \* FileStore.full_files : FileHash -> OnceCell<FullFile>
    tracked,     \* the FileHash whose entries the file-store run follows
    file_ret,    \* what the last FileStore call returned
    input,       \* the arguments of the pure function under check
    output,      \* its result, NoOutput before the call
    keepalivers, \* Net.keepalivers, per node: the count kept for the peer
    psk_to_addr, \* Net.psk_to_addr, per node: the address recorded for the peer
    addr_to_psk, \* Net.addr_to_psk, per node: the addresses recorded as the peer's
    initting,    \* Net.initting, per node: the entry kept for the peer
    connections, \* Net.connections, per node: the Connection kept for the peer
    kex_loops,   \* per node: the send_kex_loop tasks that run, by their PubKexKey
    ka_tasks,    \* per node: the keepalive tasks that run
    network,     \* the datagrams in flight
    next_key,    \* per node: the next SecKexKey its generator draws
    net_ret,     \* what Net::send or Net::recv returned, if it was the last call
    queue_buffer,    \* Client.queue_buffer : QueueMessageId -> QueueMessage
    next_message_id, \* Client.queue.next_message_id
    committed,       \* the ids the loop of handle_queue_message went through, in order
    calls,           \* the calls in flight, each with its position and its locals
    wocs             \* InitState.wocs: the WaitersOrConnection kept for the peer

evalVars == <<info>>
fileVars == <<file_parts, full_files, tracked, file_ret>>
pureVars == <<input, output>>
netVars ==
    <<keepalivers, psk_to_addr, addr_to_psk, initting, connections, kex_loops,
      ka_tasks, network, next_key, net_ret>>
clientVars == <<queue_buffer, next_message_id, committed, calls>>
initVars == <<wocs>>

\* Option<T>: None is the empty tuple, Some(x) the tuple of x
None == <<>>
Some(x) == <<x>>
NoOutput == [fn |-> "none"]
NoCall == [fn |-> "none"]

Range(f) == {f[i] : i \in DOMAIN f}

vars ==
    <<info, file_parts, full_files, tracked, file_ret, input, output,
      keepalivers, psk_to_addr, addr_to_psk, initting, connections, kex_loops,
      ka_tasks, network, next_key, net_ret,
      queue_buffer, next_message_id, committed, calls, wocs>>

\* the values a subsystem's variables keep in the specifications of the others
EvalIdle == info = <<>>
FileIdle ==
    file_parts = <<>> /\ full_files = <<>> /\ tracked = 0 /\ file_ret = "init"
PureIdle == input = NoOutput /\ output = NoOutput
\* two Net instances, A and B, as Net::new leaves them
Nodes == {"A", "B"}
NetIdle ==
    /\ keepalivers = [n \in Nodes |-> 0]
    /\ psk_to_addr = [n \in Nodes |-> None]
    /\ addr_to_psk = [n \in Nodes |-> {}]
    /\ initting = [n \in Nodes |-> <<>>]
    /\ connections = [n \in Nodes |-> None]
    /\ kex_loops = [n \in Nodes |-> {}]
    /\ ka_tasks = [n \in Nodes |-> {}]
    /\ network = {}
    /\ next_key = [n \in Nodes |-> 1]
    /\ net_ret = NoCall

\* an InitState as InitState::new leaves it
InitStateIdle == wocs = <<>>

\* a Client as Client::new leaves it, with no call in flight
ClientIdle ==
    /\ queue_buffer = <<>>
    /\ next_message_id = 0
    /\ committed = <<>>
    /\ calls = <<>>

(***************************************************************************)
(* Hashes.  blake3 and its keyed mode are modelled as collision-free on   *)
(* the values the model draws: the digest is an injective code of the     *)
(* (key, data) pair.                                                      *)
(***************************************************************************)
\* blake3::keyed_hash(key, data), for a key in 1..9 and data in 0..9
KeyedHash(key, data) == 100 + 10 * key + data

(***************************************************************************)
(* Evaluation aggregator: net/src/common.rs                                *)
(***************************************************************************)
\* the longest evaluator list of an EvaluationRequest
MaxEvaluators == 3

EvaluatorKeys == 1 .. MaxEvaluators
\* a PubSigKey that no request names
UnknownEvaluator == MaxEvaluators + 1
SubScores == {0, 1}
\* the digests an evaluator may reveal (QEvaluationProof.detailhs)
DetailKeys == {1, 2}

\* EvaluationId::get_public_hash_data: blake3 of the serialized id.  The
\* model has one submission, so the id is the evaluator's key.
get_public_hash_data(evaluator) == evaluator

\* QEvaluationProof::hash
ProofHash(ep) == KeyedHash(ep.detailhs, get_public_hash_data(ep.evaluator))

\* a commitment that no reveal opens
BogusHash == KeyedHash(9, 0)

\* EvaluationState
StNone == [tag |-> "None"]
StProvisional(s, h) == [tag |-> "Provisional", score |-> s, hash |-> h]
StFinal(s, h) == [tag |-> "Final", score |-> s, hash |-> h]
StFailed == [tag |-> "Failed"]

\* SingleEvaluationInfo::new
SingleNew(psk) == [evaluator |-> psk, state |-> StNone]

\* an add_evaluation where the last published evaluation wins
SingleAddEvaluationLast(x, e) ==
    IF x.state.tag \in {"None", "Provisional"}
    THEN [x EXCEPT !.state = StProvisional(e.score, e.detailhs_hash)]
    ELSE x

\* SingleEvaluationInfo::add_evaluation
SingleAddEvaluation(x, e) ==
    IF x.state.tag = "None"
    THEN [x EXCEPT !.state = StProvisional(e.score, e.detailhs_hash)]
    ELSE x

\* an add_evaluation_proof that keeps the commitment in Final
SingleAddEvaluationProofKeepHash(x, ep) ==
    IF x.state.tag = "Provisional"
    THEN IF ProofHash(ep) = x.state.hash
         THEN [x EXCEPT !.state = StFinal(x.state.score, x.state.hash)]
         ELSE [x EXCEPT !.state = StFailed]
    ELSE x

\* an add_evaluation_proof that fails an evaluator whose proof comes first
SingleAddEvaluationProofEager(x, ep) ==
    IF x.state.tag = "Provisional"
    THEN IF ProofHash(ep) = x.state.hash
         THEN [x EXCEPT !.state = StFinal(x.state.score, ep.detailhs)]
         ELSE [x EXCEPT !.state = StFailed]
    ELSE IF x.state.tag = "None" THEN [x EXCEPT !.state = StFailed]
    ELSE x

\* SingleEvaluationInfo::add_evaluation_proof
SingleAddEvaluationProof(x, ep) ==
    IF x.state.tag = "Provisional"
    THEN IF ProofHash(ep) = x.state.hash
         THEN [x EXCEPT !.state = StFinal(x.state.score, ep.detailhs)]
         ELSE [x EXCEPT !.state = StFailed]
    ELSE x

\* EvaluationInfo::new
EvaluationInfoNew(evaluators) ==
    [i \in 1 .. Len(evaluators) |-> SingleNew(evaluators[i])]

\* Iterator::find / position: the first index whose evaluator is psk, 0 if none
FindEvaluator(v, psk) ==
    IF \E i \in 1 .. Len(v) : v[i].evaluator = psk
    THEN CHOOSE i \in 1 .. Len(v) :
            /\ v[i].evaluator = psk
            /\ \A j \in 1 .. i - 1 : v[j].evaluator # psk
    ELSE 0

\* EvaluationInfo::add_evaluation
add_evaluation(v, e) ==
    LET i == FindEvaluator(v, e.evaluator)
    IN  IF i = 0 THEN v ELSE [v EXCEPT ![i] = SingleAddEvaluation(v[i], e)]

\* EvaluationInfo::add_evaluation_proof
add_evaluation_proof(v, ep) ==
    LET i == FindEvaluator(v, ep.evaluator)
    IN  IF i = 0 THEN v ELSE [v EXCEPT ![i] = SingleAddEvaluationProof(v[i], ep)]

\* a provisional_score that takes the last Provisional or Final in list order
provisional_scoreLast(v) ==
    LET has == {i \in 1 .. Len(v) : v[i].state.tag \in {"Provisional", "Final"}}
    IN  IF has = {} THEN None
        ELSE Some(v[CHOOSE i \in has : \A j \in has : i >= j].state.score)

\* EvaluationInfo::provisional_score: the first Provisional or Final in list order
provisional_score(v) ==
    LET has == {i \in 1 .. Len(v) : v[i].state.tag \in {"Provisional", "Final"}}
    IN  IF has = {} THEN None
        ELSE Some(v[CHOOSE i \in has : \A j \in has : i <= j].state.score)

\* the vector v of final_score: Some((s, h)) for a Final evaluator, else None
FinalVector(v) ==
    [i \in 1 .. Len(v) |->
        IF v[i].state.tag = "Final"
        THEN Some(<<v[i].state.score, v[i].state.hash>>)
        ELSE None]

\* a majority pass that keeps its first candidate: what the loop does without
\* the cnt == 0 branch
MajorityPassFirst(fv, i, maj, cnt) ==
    IF Len(fv) = 0 THEN maj ELSE fv[1]

\* the loop of final_score over fv[i..], from candidate maj with counter cnt
RECURSIVE MajorityPass(_, _, _, _)
MajorityPass(fv, i, maj, cnt) ==
    IF i > Len(fv) THEN maj
    ELSE IF fv[i] = maj THEN MajorityPass(fv, i + 1, maj, cnt + 1)
    ELSE IF cnt = 0 THEN MajorityPass(fv, i + 1, fv[i], cnt)
    ELSE MajorityPass(fv, i + 1, maj, cnt - 1)

\* final_score with the threshold at half of the evaluators, not above it
final_scoreHalf(v) ==
    LET fv == FinalVector(v)
        maj == MajorityPass(fv, 1, None, 0)
    IN  IF Cardinality({i \in 1 .. Len(fv) : fv[i] = maj}) * 2 >= Len(v)
        THEN IF maj = None THEN None ELSE Some(maj[1][1])
        ELSE None

\* EvaluationInfo::final_score
final_score(v) ==
    LET fv == FinalVector(v)
        maj == MajorityPass(fv, 1, None, 0)
    IN  IF Cardinality({i \in 1 .. Len(fv) : fv[i] = maj}) * 2 > Len(v)
        THEN IF maj = None THEN None ELSE Some(maj[1][1])
        ELSE None

\* an is_done that asks for one settled evaluator, not for all of them
is_doneAny(v) == \E i \in 1 .. Len(v) : v[i].state.tag \in {"Final", "Failed"}

\* EvaluationInfo::is_done
is_done(v) == \A i \in 1 .. Len(v) : v[i].state.tag \in {"Final", "Failed"}

\* EvaluationInfo::score
score(v) ==
    IF final_score(v) # None THEN [tag |-> "Final", score |-> final_score(v)[1]]
    ELSE IF is_done(v) THEN [tag |-> "Failed"]
    ELSE IF provisional_score(v) # None
         THEN [tag |-> "Provisional", score |-> provisional_score(v)[1]]
         ELSE [tag |-> "None"]

(***************************************************************************)
(* SpecEval: an EvaluationInfo and the stream of Evaluation and           *)
(* EvaluationProof messages applied to it.                                *)
(***************************************************************************)
\* the evaluator lists of a request: n distinct keys, n = 0 .. MaxEvaluators.
\* Every slot reaches every state whatever its neighbours do, so every
\* ordering of a list of states is reached under the one ordering of keys.
EvaluatorLists == {[i \in 1 .. n |-> i] : n \in 0 .. MaxEvaluators}

\* the QEvaluation messages: any score, and a commitment to either digest
\* under the evaluator's own id or a commitment nothing opens
QEvaluations ==
    UNION {{[evaluator |-> ev, score |-> s, detailhs_hash |-> h] :
                s \in SubScores,
                h \in {KeyedHash(k, get_public_hash_data(ev)) : k \in DetailKeys}
                        \cup {BogusHash}} :
           ev \in EvaluatorKeys \cup {UnknownEvaluator}}

QEvaluationProofs ==
    [evaluator : EvaluatorKeys \cup {UnknownEvaluator}, detailhs : DetailKeys]


InitEval ==
    /\ \E evaluators \in EvaluatorLists : info = EvaluationInfoNew(evaluators)
    /\ FileIdle
    /\ PureIdle
    /\ NetIdle
    /\ ClientIdle
    /\ InitStateIdle

AddEvaluation(e) ==
    /\ info' = add_evaluation(info, e)
    /\ UNCHANGED <<fileVars, pureVars, netVars, clientVars, initVars>>

AddEvaluationProof(ep) ==
    /\ info' = add_evaluation_proof(info, ep)
    /\ UNCHANGED <<fileVars, pureVars, netVars, clientVars, initVars>>

NextEval ==
    \/ \E e \in QEvaluations : AddEvaluation(e)
    \/ \E ep \in QEvaluationProofs : AddEvaluationProof(ep)


SpecEval == InitEval /\ [][NextEval]_vars

\* the evaluators that are Final with revealed key k
KeyFinal(v, k) ==
    {i \in 1 .. Len(v) : v[i].state.tag = "Final" /\ v[i].state.hash = k}

\* strictly more than half of all evaluators are Final with key k
KeyMajority(v, k) == Cardinality(KeyFinal(v, k)) * 2 > Len(v)

\* strictly more than half of all evaluators are Final(s, k)
PairMajority(v, s, k) ==
    Cardinality({i \in 1 .. Len(v) : v[i].state = StFinal(s, k)}) * 2 > Len(v)

\* the list v reordered by the permutation p of its indices
Permute(v, p) == [i \in 1 .. Len(v) |-> v[p[i]]]

\* C3: score() is monotone: every call of add_evaluation or
\* add_evaluation_proof leaves the class of score() alone or moves it
\* None -> {Provisional, Failed, Final} or Provisional -> {Final, Failed};
\* Final and Failed are never left and Provisional never falls back to None.
C3_MonotoneStep ==
    LET a == score(info).tag
        b == score(info').tag
    IN  \/ a = b
        \/ a = "None" /\ b \in {"Provisional", "Failed", "Final"}
        \/ a = "Provisional" /\ b \in {"Final", "Failed"}
C3_ScoreMonotone == [][C3_MonotoneStep]_info

C5_Sound ==
    score(info).tag = "Final" =>
        \E k \in DetailKeys :
            /\ KeyMajority(info, k)
            /\ \E i \in KeyFinal(info, k) : info[i].state.score = score(info).score

ChunkSize == 2
\* the longest file
MaxFileSize == 3

Bytes == {0, 1}
EncKeys == {1, 2}
EncNonces == {0, 1}

\* the byte strings of length n
BytesOfLen(n) == [1 .. n -> Bytes]
Files == UNION {BytesOfLen(n) : n \in 0 .. MaxFileSize}

\* blake3::hash of a byte string, collision-free: its bits behind a leading 1
RECURSIVE Blake3From(_, _)
Blake3From(data, i) ==
    IF i > Len(data) THEN 1 ELSE data[i] + 2 * Blake3From(data, i + 1)
Blake3(data) == Blake3From(data, 1)

FileHashes == {Blake3(d) : d \in Files}

\* a ^ b on the low n bits
RECURSIVE XorBits(_, _, _)
XorBits(a, b, n) ==
    IF n = 0 THEN 0
    ELSE (((a % 2) + (b % 2)) % 2) + 2 * XorBits(a \div 2, b \div 2, n - 1)
Xor8(a, b) == XorBits(a, b, 8)

Reverse(q) == [i \in 1 .. Len(q) |-> q[Len(q) + 1 - i]]
Zeros(n) == [i \in 1 .. n |-> 0]
Min(a, b) == IF a < b THEN a ELSE b

\* the ChaCha8 keystream byte at position i under (key, nonce): a stand-in
\* that differs between the keys and between the nonces
Keystream(key, nonce, i) == (key + nonce + i) % 2

\* StreamCipher::apply_keystream
ApplyKeystream(buf, key, nonce) ==
    [i \in 1 .. Len(buf) |-> Xor8(buf[i], Keystream(key, nonce, i))]

\* Writable for FileChunk: the octets, reversed under a little-endian context
FileChunkWrite(octets) == Reverse(octets)

\* Readable for FileChunk: ChunkSize bytes are read and reversed; a shorter
\* buffer is an error
FileChunkRead(buf) ==
    IF Len(buf) < ChunkSize THEN None
    ELSE Some(Reverse(SubSeq(buf, 1, ChunkSize)))

\* Encrypted::<FileChunk>::new, with the nonce it drew
EncryptedNew(octets, key, nonce) ==
    [data |-> ApplyKeystream(FileChunkWrite(octets), key, nonce), nonce |-> nonce]

\* Encrypted::<FileChunk>::inner
EncryptedInner(chunk, key) ==
    FileChunkRead(ApplyKeystream(chunk.data, key, chunk.nonce))

\* FileParts::new
FilePartsNew(size, enc_key) ==
    [enc_key |-> enc_key,
     present |-> [i \in 1 .. ((size + ChunkSize - 1) \div ChunkSize) |-> FALSE],
     data |-> Zeros(size)]

\* FileParts::nchunks
nchunks(fp) == (Len(fp.data) + ChunkSize - 1) \div ChunkSize

\* FileParts::is_full
is_full(fp) == nchunks(fp) = Cardinality({i \in DOMAIN fp.present : fp.present[i]})

\* the index present[chunki] panics on: chunk indices count from 0
ChunkInRange(fp, chunki) == chunki < Len(fp.present)

\* add_chunk that copies every chunk to the start of the buffer
add_chunkAtStart(fp, chunki, data) ==
    IF ~fp.present[chunki + 1]
    THEN [fp EXCEPT
            !.present[chunki + 1] = TRUE,
            !.data = [i \in 1 .. Len(fp.data) |->
                        IF i <= Len(data) THEN data[i] ELSE fp.data[i]]]
    ELSE fp

\* FileParts::add_chunk, for a chunk index in range
add_chunk(fp, chunki, data) ==
    IF ~fp.present[chunki + 1]
    THEN LET sl == chunki * ChunkSize
             sr == Min((chunki + 1) * ChunkSize, Len(fp.data))
         IN  [fp EXCEPT
                !.present[chunki + 1] = TRUE,
                !.data = [i \in 1 .. Len(fp.data) |->
                            IF sl < i /\ i <= sr THEN data[i - sl] ELSE fp.data[i]]]
    ELSE fp

\* FileParts::add_enc_chunk, for a chunk index in range
parts_add_enc_chunk(fp, chunki, chunk) ==
    IF ~fp.present[chunki + 1]
    THEN LET inner == EncryptedInner(chunk, fp.enc_key)
         IN  IF inner # None
             THEN LET sr == Min(ChunkSize, Len(fp.data) - chunki * ChunkSize)
                  IN  add_chunk(fp, chunki, SubSeq(inner[1], 1, sr))
             ELSE fp
    ELSE fp

\* FullFile::new
FullFileNew(data, enc_key) == [data |-> data, enc_key |-> enc_key]

\* FullFile::get_chunk, chunk indices counting from 0
get_chunk(ff, chunki) ==
    SubSeq(ff.data, chunki * ChunkSize + 1, Min((chunki + 1) * ChunkSize, Len(ff.data)))

\* FullFile::get_enc_chunk, with the nonce Encrypted::new drew: the chunk,
\* padded with zeros to a whole FileChunk, under the file's key
get_enc_chunk(ff, chunki, nonce) ==
    LET chunk == get_chunk(ff, chunki)
    IN  EncryptedNew(chunk \o Zeros(ChunkSize - Len(chunk)), ff.enc_key, nonce)

\* a map without key k
MapRemove(m, k) == [x \in DOMAIN m \ {k} |-> m[x]]
\* a map with k bound to v
MapPut(m, k, v) == [x \in DOMAIN m \cup {k} |-> IF x = k THEN v ELSE m[x]]

\* entry_async(hash).or_insert(Arc::new(OnceCell::new())): the cell under hash
OrInsertCell(full, hash) ==
    IF hash \in DOMAIN full THEN full ELSE MapPut(full, hash, None)

\* OnceCell::set: a cell that is set keeps its value
CellSet(cell, ff) == IF cell = None THEN Some(ff) ELSE cell

\* full_files after entry(hash).or_insert(cell).get().set(ff)
SetFull(full, hash, ff) ==
    LET withCell == OrInsertCell(full, hash)
    IN  [withCell EXCEPT ![hash] = CellSet(withCell[hash], ff)]

\* a completion check that accepts every buffer
HashMatchesAlways(hash, data) == TRUE

\* the check of a completed file: hash == Mac(blake3::hash(&value.data))
HashMatches(hash, data) == hash = Blake3(data)

\* FileStore::add_done
AddDone(data, enc_key) ==
    /\ Blake3(data) = tracked
    /\ full_files' = SetFull(full_files, Blake3(data), FullFileNew(data, enc_key))
    /\ file_ret' = "hash"
    /\ UNCHANGED <<file_parts, tracked>>
    /\ UNCHANGED <<evalVars, pureVars, netVars, clientVars, initVars>>

\* FileStore::add_new: insert_async leaves an entry that exists alone
AddNew(hash, size, enc_key) ==
    /\ hash = tracked
    /\ file_parts' = IF hash \in DOMAIN file_parts THEN file_parts
                     ELSE MapPut(file_parts, hash, FilePartsNew(size, enc_key))
    /\ file_ret' = "unit"
    /\ UNCHANGED <<full_files, tracked>>
    /\ UNCHANGED <<evalVars, pureVars, netVars, clientVars, initVars>>

\* add_enc_chunk that keeps the partial entry of a file whose hash differs
AddEncChunkKeep(hash, chunki, piece) ==
    /\ hash = tracked
    /\ IF hash \notin DOMAIN file_parts
       THEN file_ret' = "None" /\ UNCHANGED <<file_parts, full_files>>
       ELSE IF ~ChunkInRange(file_parts[hash], chunki)
       THEN file_ret' = "panic" /\ UNCHANGED <<file_parts, full_files>>
       ELSE LET fp == parts_add_enc_chunk(file_parts[hash], chunki, piece)
            IN  IF is_full(fp)
                THEN IF HashMatches(hash, fp.data)
                     THEN /\ file_parts' = MapRemove(file_parts, hash)
                          /\ full_files' =
                                SetFull(full_files, hash, FullFileNew(fp.data, fp.enc_key))
                          /\ file_ret' = "Some(true)"
                     ELSE /\ file_parts' = MapPut(file_parts, hash, fp)
                          /\ UNCHANGED full_files
                          /\ file_ret' = "None"
                ELSE /\ file_parts' = MapPut(file_parts, hash, fp)
                     /\ UNCHANGED full_files
                     /\ file_ret' = "Some(false)"
    /\ UNCHANGED tracked
    /\ UNCHANGED <<evalVars, pureVars, netVars, clientVars, initVars>>

\* FileStore::add_enc_chunk
AddEncChunk(hash, chunki, piece) ==
    /\ hash = tracked
    /\ IF hash \notin DOMAIN file_parts
       THEN file_ret' = "None" /\ UNCHANGED <<file_parts, full_files>>
       ELSE IF ~ChunkInRange(file_parts[hash], chunki)
       THEN \* present[chunki] panics: the call unwinds, the entry is as it was
            file_ret' = "panic" /\ UNCHANGED <<file_parts, full_files>>
       ELSE LET fp == parts_add_enc_chunk(file_parts[hash], chunki, piece)
            IN  IF is_full(fp)
                THEN /\ file_parts' = MapRemove(file_parts, hash)
                     /\ IF HashMatches(hash, fp.data)
                        THEN /\ full_files' =
                                  SetFull(full_files, hash, FullFileNew(fp.data, fp.enc_key))
                             /\ file_ret' = "Some(true)"
                        ELSE /\ UNCHANGED full_files
                             /\ file_ret' = "None"
                ELSE /\ file_parts' = MapPut(file_parts, hash, fp)
                     /\ UNCHANGED full_files
                     /\ file_ret' = "Some(false)"
    /\ UNCHANGED tracked
    /\ UNCHANGED <<evalVars, pureVars, netVars, clientVars, initVars>>

\* FileStore::get_file: the cell under hash, created unset when absent
GetFile(hash) ==
    /\ hash = tracked
    /\ full_files' = OrInsertCell(full_files, hash)
    /\ file_ret' = "cell"
    /\ UNCHANGED <<file_parts, tracked>>
    /\ UNCHANGED <<evalVars, pureVars, netVars, clientVars, initVars>>

\* the Encrypted<FileChunk> values a peer may send: any ciphertext of a full
\* chunk or one byte short of it, under any nonce
EncryptedChunks ==
    [data : BytesOfLen(ChunkSize) \cup BytesOfLen(ChunkSize - 1), nonce : EncNonces]

\* one index past the last chunk of the longest file
ChunkIndexes == 0 .. ((MaxFileSize + ChunkSize - 1) \div ChunkSize)

InitFile ==
    /\ file_parts = <<>>
    /\ full_files = <<>>
    /\ tracked \in FileHashes
    /\ file_ret = "init"
    /\ EvalIdle
    /\ PureIdle
    /\ NetIdle
    /\ ClientIdle
    /\ InitStateIdle

NextFile ==
    \/ \E data \in Files, k \in EncKeys : AddDone(data, k)
    \/ \E size \in 0 .. MaxFileSize, k \in EncKeys : AddNew(tracked, size, k)
    \/ \E chunki \in ChunkIndexes, piece \in EncryptedChunks :
          AddEncChunk(tracked, chunki, piece)
    \/ GetFile(tracked)

SpecFile == InitFile /\ [][NextFile]_vars

\* the hashes whose cell in full_files is resolved
Resolved(full) == {h \in DOMAIN full : full[h] # None}

C6_HashOfBytes ==
    \A h \in Resolved(full_files) : Blake3(full_files[h][1].data) = h

C6_BytesKept ==
    \A h \in Resolved(full_files) :
        /\ h \in Resolved(full_files')
        /\ full_files'[h][1].data = full_files[h][1].data

\* C6: every fully received entry under hash h holds bytes whose blake3 is
\* h, and no later add_done, add_new or add_enc_chunk changes the bytes of
\* a fully received entry.
C6_FileStoreIntegrity == []C6_HashOfBytes /\ [][C6_BytesKept]_vars

\* a file of two chunks was reassembled and promoted, and a new partial entry
\* for the same hash is under way
C6_Witness ==
    /\ tracked \in Resolved(full_files)
    /\ Len(full_files[tracked][1].data) > ChunkSize
    /\ tracked \in DOMAIN file_parts
    /\ file_ret = "Some(false)"

(***************************************************************************)
(* is_timestamp_valid: net/src/message.rs                                  *)
(*                                                                         *)
(* Instants are whole milliseconds (SystemTime counts nanoseconds).       *)
(***************************************************************************)
\* Duration::from_secs(20), in ms
FUTURE_WINDOW == 20000
\* Duration::from_secs(40), in ms
PAST_WINDOW == 40000

\* is_timestamp_valid with both comparisons inclusive
is_timestamp_valid_inclusive(timestamp, now) ==
    IF timestamp > now
    THEN timestamp - now <= FUTURE_WINDOW
    ELSE now - timestamp <= PAST_WINDOW

\* is_timestamp_valid, with the SystemTime::now() it reads
is_timestamp_valid(timestamp, now) ==
    IF timestamp > now
    THEN timestamp - now < FUTURE_WINDOW
    ELSE now - timestamp < PAST_WINDOW

\* the local clock's readings
Nows == {60000, 86400000}
\* timestamp - now: each second from -45 s to 25 s, and 1 ms around the ends
\* of the window
Offsets ==
    {1000 * k : k \in -45 .. 25}
        \cup {-PAST_WINDOW - 1, -PAST_WINDOW + 1, -1, 1,
              FUTURE_WINDOW - 1, FUTURE_WINDOW + 1}

InitTime ==
    /\ \E now \in Nows, d \in Offsets :
          input = [fn |-> "is_timestamp_valid", now |-> now, timestamp |-> now + d]
    /\ output = NoOutput
    /\ EvalIdle
    /\ FileIdle
    /\ NetIdle
    /\ ClientIdle
    /\ InitStateIdle

CallIsTimestampValid ==
    /\ input.fn = "is_timestamp_valid"
    /\ output = NoOutput
    /\ output' = [fn |-> "is_timestamp_valid",
                  valid |-> is_timestamp_valid(input.timestamp, input.now)]
    /\ UNCHANGED input
    /\ UNCHANGED <<evalVars, fileVars, netVars, clientVars, initVars>>

NextTime == CallIsTimestampValid

SpecTime == InitTime /\ [][NextTime]_vars

MAX_PACKET_SIZE == 1280
\* 40 bytes of IPv6 header, 8 of UDP header
MAX_MESSAGE_SIZE == MAX_PACKET_SIZE - 48

\* the chunk size that forgets the message tag
FILE_CHUNK_SIZE_NoTag == MAX_MESSAGE_SIZE - 32 - 32 - 4 - 12

\* - message tag - mac - hash - offset - nonce
FILE_CHUNK_SIZE == MAX_MESSAGE_SIZE - 1 - 32 - 32 - 4 - 12

\* the n little-endian bytes of x
RECURSIVE IntLE(_, _)
IntLE(x, n) == IF n = 0 THEN <<>> ELSE <<x % 256>> \o IntLE(x \div 256, n - 1)
\* the integer of little-endian bytes
RECURSIVE FromLE(_)
FromLE(b) == IF Len(b) = 0 THEN 0 ELSE b[1] + 256 * FromLE(Tail(b))

\* the 32 octets of a digest
DigestOctets(h) == [i \in 1 .. 32 |-> <<h, i>>]
\* the 12 octets of a nonce
NonceOctets(n) == [i \in 1 .. 12 |-> n]

\* blake3::keyed_hash(key, buf), collision-free: the pair itself
KeyedHashBuf(key, buf) == <<key, buf>>

\* Writable for Mac: the 32 octets, reversed under a little-endian context
MacWrite(h) == Reverse(DigestOctets(h))
\* Writable for EncNonce: the 12 octets, reversed likewise
EncNonceWrite(n) == Reverse(NonceOctets(n))

\* SizedEncrypted::<FileChunk, FILE_CHUNK_SIZE>::new, with the nonce it drew:
\* the chunk is written into a buffer of FILE_CHUNK_SIZE bytes and enciphered
SizedEncryptedNew(octets, key, nonce) ==
    [data |-> ApplyKeystream(Reverse(octets), key, nonce), nonce |-> nonce]

\* Writable for SizedEncrypted: the bytes, then the nonce
SizedEncryptedWrite(e) == e.data \o EncNonceWrite(e.nonce)

\* Writable (derived) for FileMessage: hash, piece, data
FileMessageWrite(fm) ==
    MacWrite(fm.hash) \o IntLE(fm.piece, 4) \o SizedEncryptedWrite(fm.data)

\* Writable (derived) for SystemTime inside KeepAliveInner: u64 seconds and
\* u32 nanoseconds since the epoch
KeepAliveInnerWrite(t) == IntLE(t.secs, 8) \o IntLE(t.nanos, 4)

\* Writable for EncKey: the 32 octets, reversed under a little-endian context
EncKeyWrite(k) == Reverse([i \in 1 .. 32 |-> k])

\* Writable (derived) for RequestMessage::EncKey(EncKeyId::CustomPublic(id)):
\* the tag 2, the tag 0, the u32
RequestMessageWrite(t) == <<2, 0>> \o IntLE(t.id, 4)

\* Writable (derived) for EncKeyInfo with id EncKeyId::CustomPublic(id)
EncKeyInfoWrite(t) == <<0>> \o IntLE(t.id, 4) \o EncKeyWrite(t.key)

\* data.write_to_vec() of a Macced payload
PayloadWrite(t) ==
    CASE t.type = "FileMessage" -> FileMessageWrite(t)
      [] t.type = "KeepAliveInner" -> KeepAliveInnerWrite(t)
      [] t.type = "RequestMessage" -> RequestMessageWrite(t)
      [] t.type = "EncKeyInfo" -> EncKeyInfoWrite(t)

\* Macced::new
MaccedNew(data, key) ==
    [data |-> data, mac |-> KeyedHashBuf(key, PayloadWrite(data))]

\* a check that compares the hashed bytes and forgets the key
MaccedCheckUnkeyed(m, key) == m.mac[2] = PayloadWrite(m.data)

\* Macced::check
MaccedCheck(m, key) == m.mac = KeyedHashBuf(key, PayloadWrite(m.data))

\* Macced::inner
MaccedInner(m, key) == IF MaccedCheck(m, key) THEN Some(m.data) ELSE None

\* Writable (derived) for Macced: data, then mac
MaccedWrite(m) == PayloadWrite(m.data) \o MacWrite(m.mac)

\* Writable (derived) for Message, variant File: the tag 2, then the Macced
MessageFileWrite(m) == <<2>> \o MaccedWrite(m)

OBFUSCATION_BYTES ==
    <<185, 174, 209, 69, 42, 248, 31, 131, 3, 22, 177, 242, 148, 120, 109, 165,
      163, 207, 114, 158, 146, 106, 82, 236, 83, 188, 149, 239, 189, 232, 255, 90>>

\* the loop of Obfuscated's write_to and read_from: byte i (from 0) is XORed
\* with OBFUSCATION_BYTES[i & 31]
ObfuscationXor(data) ==
    [i \in 1 .. Len(data) |-> Xor8(data[i], OBFUSCATION_BYTES[((i - 1) % 32) + 1])]

\* Writable for IpAddr and (derived) PeerAddr: the tag 0 and the address as a
\* u32, or the tag 1 and the 16 octets reversed; then the port as a u16
PeerAddrWrite(addr) ==
    (IF addr.v = 4 THEN <<0>> ELSE <<1>>) \o Reverse(addr.octets) \o IntLE(addr.port, 2)

\* Readable for PeerAddr, from a buffer: None on an unknown tag or a short buffer
PeerAddrRead(buf) ==
    IF Len(buf) = 0 \/ buf[1] \notin {0, 1} THEN None
    ELSE LET n == IF buf[1] = 0 THEN 4 ELSE 16
         IN  IF Len(buf) < 1 + n + 2 THEN None
             ELSE Some([v |-> IF buf[1] = 0 THEN 4 ELSE 6,
                        octets |-> Reverse(SubSeq(buf, 2, 1 + n)),
                        port |-> FromLE(SubSeq(buf, 2 + n, 3 + n))])

\* Writable for Obfuscated<PeerAddr>: the masked bytes as a Vec<u8>
ObfuscatedWrite(addr) ==
    LET data == ObfuscationXor(PeerAddrWrite(addr))
    IN  IntLE(Len(data), 4) \o data

\* a read that parses the masked bytes as they are
ObfuscatedReadMasked(bytes) ==
    IF Len(bytes) < 4 THEN None
    ELSE LET n == FromLE(SubSeq(bytes, 1, 4))
         IN  IF Len(bytes) < 4 + n THEN None
             ELSE PeerAddrRead(SubSeq(bytes, 5, 4 + n))

\* Readable for Obfuscated<PeerAddr>
ObfuscatedRead(bytes) ==
    IF Len(bytes) < 4 THEN None
    ELSE LET n == FromLE(SubSeq(bytes, 1, 4))
         IN  IF Len(bytes) < 4 + n THEN None
             ELSE PeerAddrRead(ObfuscationXor(SubSeq(bytes, 5, 4 + n)))

(***************************************************************************)
(* SpecCodec: one call of one codec function on drawn arguments.          *)
(***************************************************************************)
MacKeys == {1, 2, 3}

\* full chunks: one byte value repeated, or a ramp
FullChunks ==
    {[i \in 1 .. FILE_CHUNK_SIZE |-> b] : b \in {0, 42, 255}}
        \cup {[i \in 1 .. FILE_CHUNK_SIZE |-> i % 256]}

FileMessages ==
    {[type |-> "FileMessage", hash |-> h, piece |-> piece,
      data |-> SizedEncryptedNew(c, k, n)] :
        h \in {42}, piece \in {0, 1, 65536}, c \in FullChunks,
        k \in EncKeys, n \in {0}}

KeepAliveInners ==
    {[type |-> "KeepAliveInner", secs |-> sec, nanos |-> ns] :
        sec \in {0, 255, 256, 1700000000}, ns \in {0, 999999999}}

PeerAddrs ==
    {[v |-> 4, octets |-> o, port |-> port] :
        o \in {<<127, 0, 0, 1>>, <<0, 0, 0, 0>>, <<255, 255, 255, 255>>,
               <<192, 168, 1, 20>>},
        port \in {0, 255, 256, 8080, 65535}}
    \cup
    {[v |-> 6, octets |-> o, port |-> port] :
        o \in {<<0, 0, 0, 0, 0, 0, 0, 0, 0, 0, 0, 0, 0, 0, 0, 1>>,
               [i \in 1 .. 16 |-> 255],
               <<32, 1, 13, 184, 0, 0, 0, 0, 0, 0, 0, 0, 0, 0, 0, 42>>},
        port \in {0, 255, 256, 8080, 65535}}

InitCodec ==
    /\ \/ \E fm \in FileMessages, k \in MacKeys :
             input = [fn |-> "file_message", data |-> fm, key |-> k]
       \/ \E t \in KeepAliveInners \cup FileMessages, k \in MacKeys, k2 \in MacKeys :
             input = [fn |-> "macced", data |-> t, key |-> k, other |-> k2]
       \/ \E a \in PeerAddrs : input = [fn |-> "obfuscated", addr |-> a]
    /\ output = NoOutput
    /\ EvalIdle
    /\ FileIdle
    /\ NetIdle
    /\ ClientIdle
    /\ InitStateIdle

\* test::file_message: the datagram of a Message::File with a full chunk
SerializeFileMessage ==
    /\ input.fn = "file_message"
    /\ output = NoOutput
    /\ output' = [fn |-> "file_message",
                  ser |-> MessageFileWrite(MaccedNew(input.data, input.key))]
    /\ UNCHANGED input
    /\ UNCHANGED <<evalVars, fileVars, netVars, clientVars, initVars>>

\* Macced::new under key, then check and inner under key and under other
MaccedRoundTrip ==
    /\ input.fn = "macced"
    /\ output = NoOutput
    /\ LET m == MaccedNew(input.data, input.key)
       IN  output' = [fn |-> "macced",
                      check |-> MaccedCheck(m, input.key),
                      inner |-> MaccedInner(m, input.key),
                      check_other |-> MaccedCheck(m, input.other),
                      inner_other |-> MaccedInner(m, input.other)]
    /\ UNCHANGED input
    /\ UNCHANGED <<evalVars, fileVars, netVars, clientVars, initVars>>

\* test::obfuscated_ipv4 / obfuscated_ipv6: write, then read back
ObfuscatedRoundTrip ==
    /\ input.fn = "obfuscated"
    /\ output = NoOutput
    /\ LET ser == ObfuscatedWrite(input.addr)
       IN  output' = [fn |-> "obfuscated", ser |-> ser, unser |-> ObfuscatedRead(ser)]
    /\ UNCHANGED input
    /\ UNCHANGED <<evalVars, fileVars, netVars, clientVars, initVars>>

NextCodec ==
    \/ SerializeFileMessage
    \/ MaccedRoundTrip
    \/ ObfuscatedRoundTrip

SpecCodec == InitCodec /\ [][NextCodec]_vars

\* C8: a Message::File carrying a full chunk serializes to exactly
\* MAX_MESSAGE_SIZE = 1280 - 48 = 1232 bytes: 1 (tag) + 32 (hash) + 4 (piece)
\* + FILE_CHUNK_SIZE (ciphertext) + 12 (nonce) + 32 (mac), with
\* FILE_CHUNK_SIZE = MAX_MESSAGE_SIZE - 81.
C8_FileMessageSize ==
    output.fn = "file_message" =>
        /\ Len(output.ser) = MAX_MESSAGE_SIZE
        /\ MAX_MESSAGE_SIZE = 1232
        /\ Len(input.data.data.data) = FILE_CHUNK_SIZE
        /\ FILE_CHUNK_SIZE = MAX_MESSAGE_SIZE - 81
        /\ Len(output.ser) = 1 + 32 + 4 + Len(input.data.data.data) + 12 + 32

\* a file message with piece 65536 was serialized
C8_Witness ==
    /\ output.fn = "file_message"
    /\ input.data.piece = 65536
    /\ Len(output.ser) > 0

\* C9: Macced::new(t, k) passes check(k) and inner(k) returns t; under any
\* other key k' check is false and inner returns None.
C9_MaccedRoundTrip ==
    output.fn = "macced" =>
        /\ output.check
        /\ output.inner = Some(input.data)
        /\ input.other # input.key =>
              /\ ~output.check_other
              /\ output.inner_other = None

\* a Macced keep-alive was checked under its key and refused under another
C9_Witness ==
    /\ output.fn = "macced"
    /\ input.data.type = "KeepAliveInner"
    /\ input.other # input.key
    /\ output.check
    /\ ~output.check_other

\* C10: reading back the bytes written for Obfuscated(addr) yields
\* Obfuscated(addr), for IPv4 and IPv6; the bytes are a 4-byte length and the
\* serialized address with byte i XORed with OBFUSCATION_BYTES[i mod 32], and
\* the same XOR restores the serialized address.
C10_ObfuscatedRoundTrip ==
    output.fn = "obfuscated" =>
        LET plain == PeerAddrWrite(input.addr)
            masked == SubSeq(output.ser, 5, Len(output.ser))
        IN  /\ output.unser = Some(input.addr)
            /\ Len(output.ser) = 4 + Len(plain)
            /\ FromLE(SubSeq(output.ser, 1, 4)) = Len(plain)
            /\ \A i \in 0 .. Len(plain) - 1 :
                  masked[i + 1] = Xor8(plain[i + 1], OBFUSCATION_BYTES[(i % 32) + 1])
            /\ \A i \in 0 .. Len(plain) - 1 :
                  Xor8(masked[i + 1], OBFUSCATION_BYTES[(i % 32) + 1]) = plain[i + 1]

\* the IPv6 address [::1]:8080 was written and read back
C10_Witness ==
    /\ output.fn = "obfuscated"
    /\ input.addr.v = 6
    /\ input.addr.port = 8080
    /\ output.unser # None

(***************************************************************************)
(* Net: net/src/lib.rs                                                     *)
(*                                                                         *)
(* Node A is built with feature "client", node B with feature "server";   *)
(* each is the other's only peer.  A handler runs to its end before the   *)
(* next one starts on the same node; the spawned tasks (send_kex_loop,    *)
(* keepalive) run between handlers.  A map keyed by PubSigKey holds the   *)
(* peer's entry only; initting, keyed by (PubSigKey, PeerAddr), is a map  *)
(* from the addresses it holds for the peer.                              *)
(***************************************************************************)
\* how many SecKexKeys a node draws in a run
MaxKeys == 2
\* how many holders a node's keep-alive count reaches
MaxKeepalivers == 2

Peer(n) == IF n = "A" THEN "B" ELSE "A"

\* the address a node's socket is bound to
OwnAddr(n) == IF n = "A" THEN "addrA" ELSE "addrB"
\* an address no node listens on: where a peer was, or was thought to be
StaleAddr == "addrX"

\* the Entity Net::new was given on a node: B is the server; A is a
\* Participant unless the run draws the argument
EntityOf(n) ==
    IF n = "B" THEN "Server"
    ELSE IF input.fn = "new" THEN input.entity ELSE "Participant"

\* the key SecKexKey::random_from_rng draws on node n, and its PubKexKey
SecKexKeyOf(n) == <<n, next_key[n]>>
PubKexKeyFrom(skk) == skk

\* x25519: the shared secret of a secret key and a public key, equal for
\* (a, pub(b)) and (b, pub(a)) and for no other pair
diffie_hellman(skk, pkk) == {skk, pkk}

\* the payload of a KeepAlive
KeepAliveNow == [type |-> "KeepAliveInner", secs |-> 1700000000, nanos |-> 0]

\* Connection::new
ConnectionNew(addr, mac_key) == [ka_ah |-> None, addr |-> addr, mac_key |-> mac_key]

\* Connection::set_addr_mackey
set_addr_mackey(c, addr, mac_key) == [c EXCEPT !.addr = addr, !.mac_key = mac_key]

\* an abort_ka that leaves the task running
abort_kaNoop(c, tasks) == [c |-> c, tasks |-> tasks]

\* Connection::abort_ka, on the connection and the node's running tasks
abort_ka(c, tasks) ==
    IF c.ka_ah = None THEN [c |-> c, tasks |-> tasks]
    ELSE [c |-> [c EXCEPT !.ka_ah = None], tasks |-> tasks \ {c.ka_ah[1]}]

\* a start_ka that spawns without aborting the task it holds
start_kaNoAbort(c, tasks) ==
    LET task == [addr |-> c.addr, mac_key |-> c.mac_key]
    IN  [c |-> [c EXCEPT !.ka_ah = Some(task)], tasks |-> tasks \cup {task}]

\* Connection::start_ka: the task captures the connection's addr and mac_key
start_ka(c, tasks) ==
    LET a == abort_ka(c, tasks)
        task == [addr |-> c.addr, mac_key |-> c.mac_key]
    IN  [c |-> [a.c EXCEPT !.ka_ah = Some(task)], tasks |-> a.tasks \cup {task}]

\* the send_kex_loop task new_initting spawns on node n towards peer_addr,
\* named by the public key it sends
KexLoopOf(n, peer_addr) ==
    [pkk |-> PubKexKeyFrom(SecKexKeyOf(n)), peer_addr |-> peer_addr]

\* new_initting: the entry it returns
new_initting(n, peer_addr) ==
    [skk |-> Some(SecKexKeyOf(n)), ah |-> KexLoopOf(n, peer_addr)]

\* new_initting's effect on the node: one key drawn, one task spawned
SpawnKexLoop(n, peer_addr) ==
    /\ next_key[n] <= MaxKeys
    /\ next_key' = [next_key EXCEPT ![n] = @ + 1]
    /\ kex_loops' = [kex_loops EXCEPT ![n] = @ \cup {KexLoopOf(n, peer_addr)}]

\* the fields of node n that update_peer_addr reads or writes
NodeState(n) ==
    [psk_to_addr |-> psk_to_addr[n], addr_to_psk |-> addr_to_psk[n],
     connection |-> connections[n], keepalivers |-> keepalivers[n],
     ka_tasks |-> ka_tasks[n]]

\* an update_peer_addr that records the address and leaves the keep-alive
\* task as it runs
update_peer_addrNoRestart(st, addr) ==
    [st EXCEPT !.psk_to_addr = Some(addr),
               !.addr_to_psk = @ \cup {addr},
               !.connection = IF @ = None THEN None
                              ELSE Some(set_addr_mackey(@[1], addr, @[1].mac_key))]

\* Net::update_peer_addr, on the node's fields
update_peer_addr(st, addr) ==
    IF st.connection = None
    THEN [st EXCEPT !.psk_to_addr = Some(addr), !.addr_to_psk = @ \cup {addr}]
    ELSE LET c == set_addr_mackey(st.connection[1], addr, st.connection[1].mac_key)
             r == IF st.keepalivers > 0
                  THEN start_ka(c, st.ka_tasks)
                  ELSE [c |-> c, tasks |-> st.ka_tasks]
         IN  [st EXCEPT !.psk_to_addr = Some(addr),
                        !.addr_to_psk = @ \cup {addr},
                        !.connection = Some(r.c),
                        !.ka_tasks = r.tasks]

\* Net::update_peer_addr
UpdatePeerAddr(n, addr) ==
    /\ LET r == update_peer_addr(NodeState(n), addr)
       IN  /\ psk_to_addr' = [psk_to_addr EXCEPT ![n] = r.psk_to_addr]
           /\ addr_to_psk' = [addr_to_psk EXCEPT ![n] = r.addr_to_psk]
           /\ connections' = [connections EXCEPT ![n] = r.connection]
           /\ ka_tasks' = [ka_tasks EXCEPT ![n] = r.ka_tasks]
           /\ keepalivers' = [keepalivers EXCEPT ![n] = r.keepalivers]
    /\ net_ret' = NoCall
    /\ UNCHANGED <<initting, kex_loops, network, next_key>>
    /\ UNCHANGED <<evalVars, fileVars, pureVars, clientVars, initVars>>

\* Net::inc_keepalive
IncKeepalive(n) ==
    /\ keepalivers[n] < MaxKeepalivers
    /\ LET cnt == keepalivers[n] + 1
       IN  /\ keepalivers' = [keepalivers EXCEPT ![n] = cnt]
           /\ IF cnt = 1 /\ connections[n] # None
              THEN LET r == start_ka(connections[n][1], ka_tasks[n])
                   IN  /\ connections' = [connections EXCEPT ![n] = Some(r.c)]
                       /\ ka_tasks' = [ka_tasks EXCEPT ![n] = r.tasks]
                       /\ UNCHANGED <<initting, kex_loops, next_key>>
              ELSE IF cnt = 1 /\ psk_to_addr[n] # None
              THEN \* insert_async keeps an entry that is already there; its
                   \* argument, new_initting(..).await, has run by then
                   LET addr == psk_to_addr[n][1]
                   IN  /\ SpawnKexLoop(n, addr)
                       /\ initting' =
                             IF addr \in DOMAIN initting[n] THEN initting
                             ELSE [initting EXCEPT
                                      ![n] = MapPut(@, addr, new_initting(n, addr))]
                       /\ UNCHANGED <<connections, ka_tasks>>
              ELSE UNCHANGED <<connections, ka_tasks, initting, kex_loops, next_key>>
    /\ net_ret' = NoCall
    /\ UNCHANGED <<psk_to_addr, addr_to_psk, network>>
    /\ UNCHANGED <<evalVars, fileVars, pureVars, clientVars, initVars>>

\* Net::dec_keepalive
DecKeepalive(n) ==
    /\ LET cnt == IF keepalivers[n] # 0 THEN keepalivers[n] - 1 ELSE keepalivers[n]
       IN  /\ keepalivers' = [keepalivers EXCEPT ![n] = cnt]
           /\ IF cnt = 0 /\ connections[n] # None
              THEN LET r == abort_ka(connections[n][1], ka_tasks[n])
                   IN  /\ connections' = [connections EXCEPT ![n] = Some(r.c)]
                       /\ ka_tasks' = [ka_tasks EXCEPT ![n] = r.tasks]
              ELSE UNCHANGED <<connections, ka_tasks>>
    /\ net_ret' = NoCall
    /\ UNCHANGED <<psk_to_addr, addr_to_psk, initting, kex_loops, network, next_key>>
    /\ UNCHANGED <<evalVars, fileVars, pureVars, clientVars, initVars>>

(***************************************************************************)
(* Inbound filter: net/src/lib.rs                                          *)
(***************************************************************************)
Entities == {"Server", "Worker", "Participant", "Spectator"}

Whitelist(set) == [kind |-> "Whitelist", set |-> set]
Blacklist(set) == [kind |-> "Blacklist", set |-> set]

\* a list that admits its members whatever its kind
WBListAcceptMembers(l, t) == t \in l.set

\* WBList::accept
WBListAccept(l, t) ==
    IF l.kind = "Whitelist" THEN t \in l.set ELSE ~(t \in l.set)

\* WBList::new_accept_all, WBList::new_reject_all
WBListAcceptAll == Blacklist({})
WBListRejectAll == Whitelist({})

\* SingleFilter::accept
SingleFilterAccept(f, psk, addr) ==
    LET accept_psk == WBListAccept(f.psk_list, psk)
        accept_addr == WBListAccept(f.addr_list, addr)
    IN  accept_psk /\ accept_addr

\* SingleFilter::new_psk, new_accept_all, new_reject_all
SingleFilterNewPsk(psk_white_list) ==
    [psk_list |-> Whitelist(psk_white_list), addr_list |-> WBListAcceptAll]
SingleFilterAcceptAll == [psk_list |-> WBListAcceptAll, addr_list |-> WBListAcceptAll]
SingleFilterRejectAll == [psk_list |-> WBListRejectAll, addr_list |-> WBListRejectAll]

\* Filter::open_server
open_server(worker_white_list) ==
    [server |-> SingleFilterRejectAll,
     worker |-> SingleFilterNewPsk(worker_white_list),
     participant |-> SingleFilterAcceptAll,
     spectator |-> SingleFilterAcceptAll]

\* Filter::accept of feature "server"
ServerFilterAccept(f, psk, addr, entity) ==
    CASE entity = "Server" -> SingleFilterAccept(f.server, psk, addr)
      [] entity = "Worker" -> SingleFilterAccept(f.worker, psk, addr)
      [] entity = "Participant" -> SingleFilterAccept(f.participant, psk, addr)
      [] entity = "Spectator" -> SingleFilterAccept(f.spectator, psk, addr)

\* a client filter that lets every peer in
ClientFilterAcceptAll(psk, addr, entity) == TRUE

\* Filter::accept of feature "client"
ClientFilterAccept(psk, addr, entity) == FALSE

\* inbound_connection_filter.accept on node n: A is a client, B the server of
\* Filter::open_server with no worker
FilterAccept(n, psk, addr, entity) ==
    IF n = "B" THEN ServerFilterAccept(open_server({}), psk, addr, entity)
    ELSE ClientFilterAccept(psk, addr, entity)

(***************************************************************************)
(* SpecFilter: one call of Filter::accept on a drawn filter and peer.     *)
(***************************************************************************)
FilterPsks == {"p1", "p2"}
FilterAddrs == {"a1", "a2"}
WBLists(S) == {Whitelist(x) : x \in SUBSET S} \cup {Blacklist(x) : x \in SUBSET S}
SingleFilters ==
    {[psk_list |-> k, addr_list |-> a] : k \in WBLists(FilterPsks), a \in WBLists(FilterAddrs)}
\* the filters drawn: one arbitrary SingleFilter under one entity beside
\* three that reject, and the filters of open_server
Filters ==
    {[server |-> IF e = "Server" THEN sf ELSE SingleFilterRejectAll,
      worker |-> IF e = "Worker" THEN sf ELSE SingleFilterRejectAll,
      participant |-> IF e = "Participant" THEN sf ELSE SingleFilterRejectAll,
      spectator |-> IF e = "Spectator" THEN sf ELSE SingleFilterRejectAll] :
        e \in Entities, sf \in SingleFilters}
    \cup {open_server(w) : w \in SUBSET FilterPsks}

InitFilter ==
    /\ \E f \in Filters, psk \in FilterPsks, addr \in FilterAddrs, entity \in Entities :
          input = [fn |-> "accept", filter |-> f, psk |-> psk, addr |-> addr,
                   entity |-> entity]
    /\ output = NoOutput
    /\ EvalIdle
    /\ FileIdle
    /\ NetIdle
    /\ ClientIdle
    /\ InitStateIdle

\* Filter::accept (server)
CallFilterAccept ==
    /\ input.fn = "accept"
    /\ output = NoOutput
    /\ output' = [fn |-> "accept",
                  accept |-> ServerFilterAccept(input.filter, input.psk, input.addr,
                                                input.entity)]
    /\ UNCHANGED input
    /\ UNCHANGED <<evalVars, fileVars, netVars, clientVars, initVars>>

NextFilter == CallFilterAccept

SpecFilter == InitFilter /\ [][NextFilter]_vars

\* the SingleFilter a Filter holds for an entity
SelectedFilter(f, entity) ==
    CASE entity = "Server" -> f.server
      [] entity = "Worker" -> f.worker
      [] entity = "Participant" -> f.participant
      [] entity = "Spectator" -> f.spectator

\* a whitelist admits exactly its members, a blacklist exactly the others
Admits(l, t) ==
    \/ l.kind = "Whitelist" /\ t \in l.set
    \/ l.kind = "Blacklist" /\ t \notin l.set

\* C16: Filter::accept(psk, addr, entity) is true iff, in the SingleFilter
\* selected by entity, the key list admits psk and the address list admits
\* addr; open_server(W) accepts every Participant and Spectator, a Worker iff
\* its key is in W, and no Server.
C16_FilterSemantics ==
    output.fn = "accept" =>
        LET sf == SelectedFilter(input.filter, input.entity)
        IN  /\ output.accept <=>
                  (Admits(sf.psk_list, input.psk) /\ Admits(sf.addr_list, input.addr))
            /\ \A w \in SUBSET FilterPsks :
                  input.filter = open_server(w) =>
                      output.accept =
                          CASE input.entity \in {"Participant", "Spectator"} -> TRUE
                            [] input.entity = "Worker" -> input.psk \in w
                            [] input.entity = "Server" -> FALSE

\* open_server({p1}) refused the worker p2
C16_Witness ==
    /\ output.fn = "accept"
    /\ input.filter = open_server({"p1"})
    /\ input.entity = "Worker"
    /\ input.psk = "p2"
    /\ ~output.accept

(***************************************************************************)
(* Net: the spawned tasks and handle_net_message                          *)
(***************************************************************************)
\* the node whose socket is bound to addr, if any
Listens(n, addr) == OwnAddr(n) = addr

\* the datagrams a node's tasks send: src is the sender's address, who the
\* PubSigKey the message names
MerkleMessage(n, pkk, peer_addr) ==
    [src |-> OwnAddr(n), dst |-> peer_addr, kind |-> "Merkle", who |-> n,
     pkk |-> pkk, entity |-> EntityOf(n)]
KeepAliveMessage(n, mac_key, peer_addr) ==
    [src |-> OwnAddr(n), dst |-> peer_addr, kind |-> "KeepAlive", who |-> n,
     macced |-> MaccedNew(KeepAliveNow, mac_key)]

\* UdpSocket::send_to: a datagram for an address nobody listens on is lost
Transmit(m) ==
    IF \E n \in Nodes : Listens(n, m.dst) THEN network \cup {m} ELSE network

\* one turn of send_kex_loop: a Merkle with the loop's public key
KexLoopSend(n, task) ==
    /\ task \in kex_loops[n]
    /\ network' = Transmit(MerkleMessage(n, task.pkk, task.peer_addr))
    /\ net_ret' = NoCall
    /\ UNCHANGED <<keepalivers, psk_to_addr, addr_to_psk, initting, connections,
                   kex_loops, ka_tasks, next_key>>
    /\ UNCHANGED <<evalVars, fileVars, pureVars, clientVars, initVars>>

\* one turn of keepalive: a KeepAlive under the task's mac_key
KeepaliveSend(n, task) ==
    /\ task \in ka_tasks[n]
    /\ network' = Transmit(KeepAliveMessage(n, task.mac_key, task.addr))
    /\ net_ret' = NoCall
    /\ UNCHANGED <<keepalivers, psk_to_addr, addr_to_psk, initting, connections,
                   kex_loops, ka_tasks, next_key>>
    /\ UNCHANGED <<evalVars, fileVars, pureVars, clientVars, initVars>>

\* Net::handle_net_message, NetMessage::Merkle, signed by the peer for this
\* contest and received inside the timestamp window
HandleMerkle(n, m) ==
    /\ m \in network
    /\ m.dst = OwnAddr(n)
    /\ m.kind = "Merkle"
    /\ network' = network \ {m}
    /\ IF m.src \in DOMAIN initting[n] \/ FilterAccept(n, m.who, m.src, m.entity)
       THEN \* or_insert's argument, new_initting(..).await, runs whether or
            \* not the entry is there
            /\ SpawnKexLoop(n, m.src)
            /\ LET entry == IF m.src \in DOMAIN initting[n]
                            THEN initting[n][m.src]
                            ELSE new_initting(n, m.src)
               IN  /\ initting' = [initting EXCEPT
                                      ![n] = MapPut(@, m.src, [entry EXCEPT !.skk = None])]
                   /\ IF entry.skk = None
                      THEN UNCHANGED <<connections, ka_tasks>>
                      ELSE LET mac_key == diffie_hellman(entry.skk[1], m.pkk)
                               c == IF connections[n] = None
                                    THEN ConnectionNew(m.src, mac_key)
                                    ELSE connections[n][1]
                               a == abort_ka(set_addr_mackey(c, m.src, mac_key), ka_tasks[n])
                               r == IF keepalivers[n] > 0 THEN start_ka(a.c, a.tasks) ELSE a
                           IN  /\ connections' = [connections EXCEPT ![n] = Some(r.c)]
                               /\ ka_tasks' = [ka_tasks EXCEPT ![n] = r.tasks]
       ELSE UNCHANGED <<initting, connections, ka_tasks, kex_loops, next_key>>
    /\ net_ret' = NoCall
    /\ UNCHANGED <<keepalivers, psk_to_addr, addr_to_psk>>
    /\ UNCHANGED <<evalVars, fileVars, pureVars, clientVars, initVars>>

\* a KeepAlive branch that does not check the MAC
HandleKeepAliveUnchecked(n, m) ==
    /\ m \in network
    /\ m.dst = OwnAddr(n)
    /\ m.kind = "KeepAlive"
    /\ network' = network \ {m}
    /\ IF /\ connections[n] # None
          /\ m.src \in DOMAIN initting[n]
          /\ initting[n][m.src].skk = None
       THEN /\ initting' = [initting EXCEPT ![n] = MapRemove(@, m.src)]
            /\ kex_loops' = [kex_loops EXCEPT ![n] = @ \ {initting[n][m.src].ah}]
       ELSE UNCHANGED <<initting, kex_loops>>
    /\ net_ret' = NoCall
    /\ UNCHANGED <<keepalivers, psk_to_addr, addr_to_psk, connections, ka_tasks,
                   next_key>>
    /\ UNCHANGED <<evalVars, fileVars, pureVars, clientVars, initVars>>

\* Net::handle_net_message, NetMessage::KeepAlive, received inside the
\* timestamp window
HandleKeepAlive(n, m) ==
    /\ m \in network
    /\ m.dst = OwnAddr(n)
    /\ m.kind = "KeepAlive"
    /\ network' = network \ {m}
    /\ IF /\ connections[n] # None
          /\ MaccedInner(m.macced, connections[n][1].mac_key) # None
          /\ m.src \in DOMAIN initting[n]
          /\ initting[n][m.src].skk = None
       THEN /\ initting' = [initting EXCEPT ![n] = MapRemove(@, m.src)]
            /\ kex_loops' = [kex_loops EXCEPT ![n] = @ \ {initting[n][m.src].ah}]
       ELSE UNCHANGED <<initting, kex_loops>>
    /\ net_ret' = NoCall
    /\ UNCHANGED <<keepalivers, psk_to_addr, addr_to_psk, connections, ka_tasks,
                   next_key>>
    /\ UNCHANGED <<evalVars, fileVars, pureVars, clientVars, initVars>>

\* Net::handle_net_message on a Merkle or KeepAlive that is_timestamp_valid
\* refuses: nothing but the datagram's consumption
HandleStale(n, m) ==
    /\ m \in network
    /\ m.dst = OwnAddr(n)
    /\ m.kind \in {"Merkle", "KeepAlive"}
    /\ network' = network \ {m}
    /\ net_ret' = NoCall
    /\ UNCHANGED <<keepalivers, psk_to_addr, addr_to_psk, initting, connections,
                   kex_loops, ka_tasks, next_key>>
    /\ UNCHANGED <<evalVars, fileVars, pureVars, clientVars, initVars>>

(***************************************************************************)
(* SpecNet: the handshake and the keep-alive count between A and B, each  *)
(* told the other's true address.                                         *)
(***************************************************************************)
InitNet ==
    /\ NetIdle
    /\ ClientIdle
    /\ InitStateIdle
    /\ EvalIdle
    /\ FileIdle
    /\ PureIdle

NextNet ==
    \/ \E n \in Nodes : UpdatePeerAddr(n, OwnAddr(Peer(n)))
    \/ \E n \in Nodes : IncKeepalive(n)
    \/ \E n \in Nodes : DecKeepalive(n)
    \/ \E n \in Nodes : \E task \in kex_loops[n] : KexLoopSend(n, task)
    \/ \E n \in Nodes : \E task \in ka_tasks[n] : KeepaliveSend(n, task)
    \/ \E n \in Nodes : \E m \in network : HandleMerkle(n, m)
    \/ \E n \in Nodes : \E m \in network : HandleKeepAlive(n, m)
    \/ \E n \in Nodes : \E m \in network : HandleStale(n, m)

SpecNet == InitNet /\ [][NextNet]_vars

\* C1: in every state where A holds a connection for B, B holds a connection
\* for A and no Merkle message is in flight, the MacKey A stores for B equals
\* the MacKey B stores for A.
C1_MacKeyAgreement ==
    (/\ connections["A"] # None
     /\ connections["B"] # None
     /\ \A m \in network : m.kind # "Merkle")
        => connections["A"][1].mac_key = connections["B"][1].mac_key

\* the keep-alive task of node n is live: ka_ah holds the handle of a task
\* that runs
KaLive(n) ==
    /\ connections[n][1].ka_ah # None
    /\ connections[n][1].ka_ah[1] \in ka_tasks[n]

C2_LiveIffCounted ==
    \A n \in Nodes : connections[n] # None => (KaLive(n) <=> keepalivers[n] > 0)

C2_DecAtZero ==
    \A n \in Nodes :
        (DecKeepalive(n) /\ keepalivers[n] = 0) => keepalivers'[n] = 0

\* C2: after any sequence of complete calls of inc_keepalive, dec_keepalive,
\* update_peer_addr and handle_net_message, for every peer with a Connection
\* the keep-alive task is live iff keepalivers[peer] > 0, and dec_keepalive at
\* count 0 leaves the count at 0.
C2_KeepaliveRefcount == []C2_LiveIffCounted /\ [][C2_DecAtZero]_vars

\* a node holds a connection with two keep-alive holders and a live task while
\* its peer holds a connection with no holder and no task
C2_Witness ==
    \E n \in Nodes :
        /\ connections[n] # None
        /\ keepalivers[n] = MaxKeepalivers
        /\ KaLive(n)
        /\ connections[Peer(n)] # None
        /\ keepalivers[Peer(n)] = 0
        /\ ~KaLive(Peer(n))

(***************************************************************************)
(* Net::send and Net::recv                                                 *)
(***************************************************************************)
\* what the application of a node sends: the client a
\* SendMessage::Request, the server a SendMessage::EncKey
SendMessageOf(n) ==
    IF n = "A" THEN [type |-> "RequestMessage", id |-> 7]
    ELSE [type |-> "EncKeyInfo", id |-> 7, key |-> 1]

\* the match of Net::send: the Message variant that wraps the payload
MessageVariant(t) == IF t.type = "RequestMessage" THEN "Request" ELSE "EncKey"

\* the Message variants Net::recv returns on node n
RecvVariants(n) ==
    IF n = "A" THEN {"Queue", "File", "Request", "EncKey"}
    ELSE {"Request", "Submission", "Question"}

AppMessage(n, t, mac_key, addr) ==
    [src |-> OwnAddr(n), dst |-> addr, kind |-> "App", variant |-> MessageVariant(t),
     macced |-> MaccedNew(t, mac_key)]

\* Net::send(m, psk) for the peer, with a socket that sends
Send(n) ==
    /\ IF connections[n] = None
       THEN /\ net_ret' = [fn |-> "send", node |-> n, ok |-> FALSE,
                           err |-> "Trying to send message, but there is no connection"]
            /\ UNCHANGED network
       ELSE IF psk_to_addr[n] = None
       THEN /\ net_ret' = [fn |-> "send", node |-> n, ok |-> FALSE,
                           err |-> "Trying to send message, could not find addr from psk"]
            /\ UNCHANGED network
       ELSE LET m == AppMessage(n, SendMessageOf(n), connections[n][1].mac_key,
                                psk_to_addr[n][1])
            IN  /\ net_ret' = [fn |-> "send", node |-> n, ok |-> TRUE, datagram |-> m]
                /\ network' = Transmit(m)
    /\ UNCHANGED <<keepalivers, psk_to_addr, addr_to_psk, initting, connections,
                   kex_loops, ka_tasks, next_key>>
    /\ UNCHANGED <<evalVars, fileVars, pureVars, clientVars, initVars>>

\* one turn of the loop of Net::recv on an application datagram: the pair it
\* returns, or None when the loop goes on to the next datagram
Recv(n, m) ==
    /\ m \in network
    /\ m.dst = OwnAddr(n)
    /\ m.kind = "App"
    /\ network' = network \ {m}
    /\ net_ret' =
          [fn |-> "recv", node |-> n, datagram |-> m,
           ret |-> IF /\ m.variant \in RecvVariants(n)
                      /\ m.src \in addr_to_psk[n]
                      /\ connections[n] # None
                      /\ MaccedInner(m.macced, connections[n][1].mac_key) # None
                   THEN Some(<<MaccedInner(m.macced, connections[n][1].mac_key)[1],
                               Peer(n)>>)
                   ELSE None]
    /\ UNCHANGED <<keepalivers, psk_to_addr, addr_to_psk, initting, connections,
                   kex_loops, ka_tasks, next_key>>
    /\ UNCHANGED <<evalVars, fileVars, pureVars, clientVars, initVars>>

(***************************************************************************)
(* SpecRouter: the handshake of SpecNet with the applications of A and B  *)
(* sending and receiving.                                                 *)
(***************************************************************************)
NextRouter ==
    \/ NextNet
    \/ \E n \in Nodes : Send(n)
    \/ \E n \in Nodes : \E m \in network : Recv(n, m)

SpecRouter == InitNet /\ [][NextRouter]_vars

\* C11: Net::send fails, emitting no datagram, iff no Connection exists for
\* the peer; with a Connection it emits a datagram to the peer wrapped under
\* the connection's MacKey.
C11_SendFailsIffNoConnection ==
    net_ret.fn = "send" =>
        LET n == net_ret.node
        IN  /\ ~net_ret.ok <=> connections[n] = None
            /\ connections[n] # None =>
                  /\ net_ret.ok
                  /\ MaccedCheck(net_ret.datagram.macced, connections[n][1].mac_key)

\* C12: once a Merkle from the peer at an address has been finalized, an
\* application datagram from that address whose envelope verifies under the
\* connection's MacKey is returned by Net::recv with the peer's id.
C12_UsableFromFirstMerkle ==
    net_ret.fn = "recv" =>
        LET n == net_ret.node
            m == net_ret.datagram
        IN  (/\ connections[n] # None
             /\ connections[n][1].addr = m.src
             /\ MaccedCheck(m.macced, connections[n][1].mac_key))
                => net_ret.ret = Some(<<m.macced.data, Peer(n)>>)

\* a step that handles, on node n, a Merkle whose kex_public the stored MacKey
\* was derived from, sent from the address the connection holds
C13_DuplicateMerkleStep(n, m) ==
    /\ HandleMerkle(n, m)
    /\ connections[n] # None
    /\ connections[n][1].addr = m.src
    /\ m.pkk \in connections[n][1].mac_key

\* C13: once a Merkle with (peer_id, peer_addr, kex_public) has been
\* finalized, processing another Merkle with the same peer_id, peer_addr and
\* kex_public, before or after a KeepAlive removed the initting entry, leaves
\* the MacKey and the address stored for peer_id unchanged.
C13_FinalizeIdempotent ==
    [][\A n \in Nodes : \A m \in network :
          C13_DuplicateMerkleStep(n, m) =>
              /\ connections'[n][1].mac_key = connections[n][1].mac_key
              /\ connections'[n][1].addr = connections[n][1].addr]_vars

(***************************************************************************)
(* SpecKexFair: the handshake between A and B while both applications     *)
(* hold their keep-alive count (no dec_keepalive), with the scheduling of *)
(* tokio and a fair channel: a spawned task that can send does send, and  *)
(* a datagram that waits at a socket is handled, inside its timestamp     *)
(* window.                                                                 *)
(***************************************************************************)
NextKex ==
    \/ \E n \in Nodes : UpdatePeerAddr(n, OwnAddr(Peer(n)))
    \/ \E n \in Nodes : IncKeepalive(n)
    \/ \E n \in Nodes : \E task \in kex_loops[n] : KexLoopSend(n, task)
    \/ \E n \in Nodes : \E task \in ka_tasks[n] : KeepaliveSend(n, task)
    \/ \E n \in Nodes : \E m \in network : HandleMerkle(n, m)
    \/ \E n \in Nodes : \E m \in network : HandleKeepAlive(n, m)

KexFairness ==
    \A n \in Nodes :
        /\ WF_vars(\E task \in kex_loops[n] : KexLoopSend(n, task))
        /\ WF_vars(\E task \in ka_tasks[n] : KeepaliveSend(n, task))
        /\ WF_vars(\E m \in network : HandleMerkle(n, m))
        /\ WF_vars(\E m \in network : HandleKeepAlive(n, m))

SpecKexFair == InitNet /\ [][NextKex]_vars /\ KexFairness

\* both peers were told the other's address and then called inc_keepalive:
\* each holds the count and has started (or finished) its handshake
C14_BothStarted ==
    \A n \in Nodes :
        /\ psk_to_addr[n] = Some(OwnAddr(Peer(n)))
        /\ keepalivers[n] > 0
        /\ (initting[n] # <<>> \/ connections[n] # None)

\* both sides have finalized, neither holds an initting entry (an entry goes
\* only when a valid KeepAlive is handled) and no send_kex_loop runs
C14_Settled ==
    \A n \in Nodes :
        /\ connections[n] # None
        /\ initting[n] = <<>>
        /\ kex_loops[n] = {}

\* C14: when two peers that know each other's address both call
\* inc_keepalive and the channel is fair, eventually both have finalized,
\* each has handled a valid KeepAlive, neither holds an initting entry and no
\* send_kex_loop is live on either side.
C14_KexRetransmissionStops == C14_BothStarted ~> C14_Settled

(***************************************************************************)
(* SpecAddr: the handshake of SpecNet with a server whose application     *)
(* moves the client between its true address and one where nobody         *)
(* listens; the client is told the server's true address only.            *)
(***************************************************************************)
PeerAddrsOf(n) ==
    IF EntityOf(n) = "Server" THEN {OwnAddr(Peer(n)), StaleAddr} ELSE {OwnAddr(Peer(n))}

NextAddr ==
    \/ \E n \in Nodes : \E addr \in PeerAddrsOf(n) : UpdatePeerAddr(n, addr)
    \/ \E n \in Nodes : IncKeepalive(n)
    \/ \E n \in Nodes : DecKeepalive(n)
    \/ \E n \in Nodes : \E task \in kex_loops[n] : KexLoopSend(n, task)
    \/ \E n \in Nodes : \E task \in ka_tasks[n] : KeepaliveSend(n, task)
    \/ \E n \in Nodes : \E m \in network : HandleMerkle(n, m)
    \/ \E n \in Nodes : \E m \in network : HandleKeepAlive(n, m)
    \/ \E n \in Nodes : \E m \in network : HandleStale(n, m)

SpecAddr == InitNet /\ [][NextAddr]_vars

\* what a call of update_peer_addr(peer, addr) on node n may change: the
\* address tables and the connection's addr, and with them the keep-alive
\* task's target; nothing of the other node, no MacKey, no count
C15_Frame(n, addr) ==
    /\ keepalivers' = keepalivers
    /\ UNCHANGED <<initting, kex_loops, network, next_key>>
    /\ psk_to_addr'[Peer(n)] = psk_to_addr[Peer(n)]
    /\ addr_to_psk'[Peer(n)] = addr_to_psk[Peer(n)]
    /\ connections'[Peer(n)] = connections[Peer(n)]
    /\ ka_tasks'[Peer(n)] = ka_tasks[Peer(n)]
    /\ psk_to_addr'[n] = Some(addr)
    /\ addr_to_psk'[n] = addr_to_psk[n] \cup {addr}
    /\ (connections[n] = None) = (connections'[n] = None)
    /\ connections[n] = None => ka_tasks'[n] = ka_tasks[n]
    /\ connections[n] # None =>
          /\ connections'[n][1].addr = addr
          /\ connections'[n][1].mac_key = connections[n][1].mac_key

\* with a connection and a count above 0 the keep-alive task that runs after
\* the call is the one the connection holds, and it sends to addr
C15_TaskTargets(n, addr) ==
    (connections[n] # None /\ keepalivers[n] > 0) =>
        /\ connections'[n][1].ka_ah # None
        /\ connections'[n][1].ka_ah[1].addr = addr
        /\ ka_tasks'[n] = {connections'[n][1].ka_ah[1]}

\* a second call with the same arguments changes nothing
C15_Idempotent(n, addr) ==
    update_peer_addr(NodeState(n)', addr) = NodeState(n)'

\* C15: update_peer_addr(peer, addr) changes only the address recorded for
\* peer (the address tables and, if present, the connection's addr); the
\* stored MacKey and the keep-alive count are unchanged; with a count above 0
\* and a connection the keep-alive task afterwards targets addr; a second
\* call with the same arguments leaves the state as the first call left it.
C15_UpdatePeerAddrFrame ==
    [][\A n \in Nodes : \A addr \in PeerAddrsOf(n) :
          UpdatePeerAddr(n, addr) =>
              /\ C15_Frame(n, addr)
              /\ C15_TaskTargets(n, addr)
              /\ C15_Idempotent(n, addr)]_vars

\* a connection that was moved to the stale address while its keep-alive
\* count is held: its task sends to the stale address under the MacKey of the
\* handshake
C15_Witness ==
    \E n \in Nodes :
        /\ connections[n] # None
        /\ keepalivers[n] > 0
        /\ psk_to_addr[n] = Some(StaleAddr)
        /\ connections[n][1].addr = StaleAddr
        /\ ka_tasks[n] = {[addr |-> StaleAddr, mac_key |-> connections[n][1].mac_key]}
        /\ connections[n][1].mac_key = {<<"A", 1>>, <<"B", 1>>}

(***************************************************************************)
(* SpecGate: the handshake between the server and a client built for a    *)
(* drawn Entity, whose application is told the server's true address or   *)
(* one where nobody listens.                                               *)
(***************************************************************************)
ClientEntities == Entities \ {"Server"}

GateAddrsOf(n) ==
    IF EntityOf(n) = "Server" THEN {OwnAddr(Peer(n))} ELSE {OwnAddr(Peer(n)), StaleAddr}

InitGate ==
    /\ NetIdle
    /\ ClientIdle
    /\ InitStateIdle
    /\ EvalIdle
    /\ FileIdle
    /\ \E entity \in ClientEntities : input = [fn |-> "new", entity |-> entity]
    /\ output = NoOutput

NextGate ==
    \/ \E n \in Nodes : \E addr \in GateAddrsOf(n) : UpdatePeerAddr(n, addr)
    \/ \E n \in Nodes : IncKeepalive(n)
    \/ \E n \in Nodes : DecKeepalive(n)
    \/ \E n \in Nodes : \E task \in kex_loops[n] : KexLoopSend(n, task)
    \/ \E n \in Nodes : \E task \in ka_tasks[n] : KeepaliveSend(n, task)
    \/ \E n \in Nodes : \E m \in network : HandleMerkle(n, m)
    \/ \E n \in Nodes : \E m \in network : HandleKeepAlive(n, m)
    \/ \E n \in Nodes : \E m \in network : HandleStale(n, m)

SpecGate == InitGate /\ [][NextGate]_vars

\* node n handles a datagram sent from an address it holds no initting entry
\* for
C17_Unsolicited(n, m) ==
    /\ m.src \notin DOMAIN initting[n]
    /\ HandleMerkle(n, m) \/ HandleKeepAlive(n, m) \/ HandleStale(n, m)

\* nothing of node n's handshake state moved
C17_Untouched(n) ==
    /\ connections'[n] = connections[n]
    /\ initting'[n] = initting[n]
    /\ kex_loops'[n] = kex_loops[n]
    /\ ka_tasks'[n] = ka_tasks[n]

\* C17: a Merkle from (peer_id, peer_addr) for which the node holds no
\* initting entry creates or modifies a connection only if the inbound filter
\* accepts (peer_id, peer_addr, entity); on a client no received datagram
\* creates or changes a connection, a MacKey or an initting entry for a
\* (peer, address) pair the client holds no handshake of its own for.
C17_UnsolicitedGated ==
    [][\A n \in Nodes : \A m \in network :
          /\ (/\ HandleMerkle(n, m)
               /\ m.src \notin DOMAIN initting[n]
               /\ ~FilterAccept(n, m.who, m.src, m.entity))
                => C17_Untouched(n)
          /\ (C17_Unsolicited(n, m) /\ EntityOf(n) # "Server")
                => C17_Untouched(n)]_vars

\* a client that started its handshake towards the stale address only and
\* holds no connection has the server's Merkle, sent from the server's true
\* address, at its socket: no initting entry answers for (server, addrB)
C17_Witness ==
    /\ EntityOf("A") = "Worker"
    /\ DOMAIN initting["A"] = {StaleAddr}
    /\ connections["A"] = None
    /\ connections["B"] = None
    /\ \E m \in network :
          /\ m.kind = "Merkle"
          /\ m.dst = OwnAddr("A")
          /\ m.src = OwnAddr("B")
          /\ m.src \notin DOMAIN initting["A"]
          /\ ~FilterAccept("A", m.who, m.src, m.entity)

(***************************************************************************)
(* Evaluator: evaluator/src/lib.rs                                         *)
(*                                                                         *)
(* A WASI module is known by what one run of it does: whether the store   *)
(* could be set up and the module instantiated, how the call of _start    *)
(* ended, the memory it exports at the end, the fuel it consumed, and     *)
(* what it wrote to stdout.  A string is the sequence of its characters,  *)
(* an error message the sequence of its words.                            *)
(***************************************************************************)
Ok(x) == [tag |-> "Ok", val |-> x]
Err(e) == [tag |-> "Err", err |-> e]
Panic == [tag |-> "Panic"]

\* wasmtime::Trap, the codes a submission can raise
Traps ==
    {"OutOfFuel", "MemoryOutOfBounds", "TableOutOfBounds", "UnreachableCodeReached",
     "StackOverflow", "IntegerDivisionByZero"}

\* how a call of _start ends: Ok(()), an error whose root cause is a Trap, or
\* an error whose root cause is something else
CallOk == [ok |-> TRUE]
CallTrap(t) == [ok |-> FALSE, trap |-> Some(t), msg |-> <<"wasm", "trap", t>>]
CallError(msg) == [ok |-> FALSE, trap |-> None, msg |-> msg]

\* the root causes that are no Trap: the limiter's refusal to grow a memory
\* under trap_on_grow_failure, and the exit status of WASI proc_exit
GrowFailureMsg == <<"forcing", "trap", "when", "growing", "memory", "to", "131072", "bytes">>
ExitMsg(status) == <<"Exited", "with", "i32", "exit", "status", status>>

\* str::contains, on words
Contains(text, pat) ==
    \E i \in 0 .. Len(text) - Len(pat) :
        \A j \in 1 .. Len(pat) : text[i + j] = pat[j]

\* stdout bytes that are no UTF-8: the lone byte 0xFF
NotUtf8 == <<"0xFF">>

\* blake3::Hasher, collision-free: the bytes it was fed
HasherNew == <<>>
HasherUpdate(hasher, bytes) == hasher \o bytes
HasherFinalize(hasher) == [blake3 |-> hasher]

\* u64::to_be_bytes
to_be_bytes(x) == Reverse(IntLE(x, 8))

\* what one execution leaves for the digest: the memory it exports at the
\* end, the fuel it consumed, and whether the store was given fuel
Executed(run, fuel) ==
    [memory |-> run.memory, fuel_used |-> run.fuel_used, metered |-> fuel # None]

\* a run_wasi that feeds the consumed fuel whether or not the run is metered
run_wasiAlwaysFuel(run, fuel, hasher) ==
    IF run.setup = "err" THEN [outer |-> "Err", hasher |-> hasher, ran |-> <<>>]
    ELSE LET h1 == IF run.memory # None THEN HasherUpdate(hasher, run.memory[1])
                   ELSE hasher
         IN  [outer |-> "Ok", result |-> run.result,
              hasher |-> HasherUpdate(h1, to_be_bytes(run.fuel_used)),
              ran |-> <<Executed(run, fuel)>>]

\* run_wasi: the outer result is Err when the store or the instance could not
\* be made, before anything is fed to the hasher; ran lists the execution
run_wasi(run, fuel, hasher) ==
    IF run.setup = "err" THEN [outer |-> "Err", hasher |-> hasher, ran |-> <<>>]
    ELSE LET h1 == IF run.memory # None THEN HasherUpdate(hasher, run.memory[1])
                   ELSE hasher
             h2 == IF fuel # None THEN HasherUpdate(h1, to_be_bytes(run.fuel_used))
                   ELSE h1
         IN  [outer |-> "Ok", result |-> run.result, hasher |-> h2,
              ran |-> <<Executed(run, fuel)>>]

\* the captured stdout as a String: try_into_inner, then from_utf8
StdoutOf(run) ==
    IF run.pipe # "unique" THEN Err("error getting contents of stdout pipe")
    ELSE IF run.stdout = NotUtf8 THEN Err("FromUtf8Error")
    ELSE Ok(run.stdout)

\* run_gen and run_eval: run_wasi(..)?? and the captured stdout
run_gen(run, hasher) ==
    LET r == run_wasi(run, None, hasher)
    IN  [ret |-> IF r.outer = "Err" THEN Err("setup")
                 ELSE IF ~r.result.ok THEN Err(r.result.msg)
                 ELSE StdoutOf(run),
         hasher |-> r.hasher, ran |-> r.ran]
run_eval(run, hasher) == run_gen(run, hasher)

\* run_sub
run_sub(run, limits, hasher) ==
    LET r == run_wasi(run, Some(limits.cpu), hasher)
    IN  [ret |->
            IF r.outer = "Err" THEN Err("setup")
            ELSE IF r.result.ok
            THEN IF run.pipe = "unique"
                 THEN IF run.stdout = NotUtf8 THEN Panic
                      ELSE Ok([tag |-> "OK", out |-> run.stdout])
                 ELSE Ok([tag |-> "MFO"])
            ELSE IF r.result.trap # None
            THEN CASE r.result.trap[1] = "OutOfFuel" -> Ok([tag |-> "TLE"])
                   [] r.result.trap[1] = "MemoryOutOfBounds" -> Ok([tag |-> "MLE"])
                   [] r.result.trap[1] = "TableOutOfBounds" -> Ok([tag |-> "MLE"])
                   [] OTHER -> Ok([tag |-> "RTE"])
            ELSE IF Contains(r.result.msg,
                             <<"forcing", "trap", "when", "growing", "memory">>)
            THEN Ok([tag |-> "MLE"])
            ELSE Err(r.result.msg),
         hasher |-> r.hasher, ran |-> r.ran]

\* char::is_whitespace, on the characters the runs write
Whitespace == {" ", "\n", "\t", "\r"}

\* str::trim
RECURSIVE trim_start(_)
trim_start(str) ==
    IF Len(str) > 0 /\ str[1] \in Whitespace THEN trim_start(Tail(str)) ELSE str
RECURSIVE trim_end(_)
trim_end(str) ==
    IF Len(str) > 0 /\ str[Len(str)] \in Whitespace
    THEN trim_end(SubSeq(str, 1, Len(str) - 1)) ELSE str
trim(str) == trim_end(trim_start(str))

DigitChars == <<"0", "1", "2", "3", "4", "5", "6", "7", "8", "9">>
IsDigit(c) == \E d \in 1 .. 10 : DigitChars[d] = c
DigitValue(c) == (CHOOSE d \in 1 .. 10 : DigitChars[d] = c) - 1

\* u8::to_ascii_lowercase, on the letters of "inf", "infinity" and "nan"
ToLower(c) ==
    CASE c = "I" -> "i" [] c = "N" -> "n" [] c = "F" -> "f" [] c = "A" -> "a"
      [] c = "T" -> "t" [] c = "Y" -> "y" [] OTHER -> c
LowerStr(str) == [i \in 1 .. Len(str) |-> ToLower(str[i])]

\* the integer a run of digits writes
RECURSIVE DigitsValue(_)
DigitsValue(ds) ==
    IF Len(ds) = 0 THEN 0
    ELSE 10 * DigitsValue(SubSeq(ds, 1, Len(ds) - 1)) + DigitValue(ds[Len(ds)])

\* an f64: a finite decimal (-1)^neg * num / 10^exp, an infinity or a NaN
Finite(neg, num, exp) == [class |-> "finite", neg |-> neg, num |-> num, exp |-> exp]
Infinite(neg) == [class |-> "inf", neg |-> neg]
NaN == [class |-> "nan"]

\* one value for one number: no trailing zero behind the point
RECURSIVE Canonical(_)
Canonical(f) ==
    IF f.exp > 0 /\ f.num % 10 = 0
    THEN Canonical(Finite(f.neg, f.num \div 10, f.exp - 1)) ELSE f

\* <f64 as FromStr>::from_str on strings without exponent: an optional sign,
\* then inf, infinity or nan in any case, or digits with at most one point
\* and at least one digit
f64_from_str(str) ==
    LET signed == Len(str) > 0 /\ str[1] \in {"+", "-"}
        neg == signed /\ str[1] = "-"
        rest == IF signed THEN Tail(str) ELSE str
        points == {i \in 1 .. Len(rest) : rest[i] = "."}
        digits == SelectSeq(rest, IsDigit)
        exp == IF points = {} THEN 0 ELSE Len(rest) - (CHOOSE i \in points : TRUE)
    IN  IF LowerStr(rest) \in {<<"i", "n", "f">>, <<"i", "n", "f", "i", "n", "i", "t", "y">>}
        THEN Ok(Infinite(neg))
        ELSE IF LowerStr(rest) = <<"n", "a", "n">> THEN Ok(NaN)
        ELSE IF /\ Len(digits) > 0
                /\ Cardinality(points) <= 1
                /\ Len(digits) + Cardinality(points) = Len(rest)
        THEN Ok(Canonical(Finite(neg, DigitsValue(digits), exp)))
        ELSE Err("ParseFloatError")

\* <NotNan<f64> as FromStr>::from_str
NotNan_from_str(str) ==
    LET r == f64_from_str(str)
    IN  IF r.tag = "Err" THEN r
        ELSE IF r.val.class = "nan" THEN Err("ParseNotNanError::IsNaN")
        ELSE r

\* NotNan::zero()
Zero == Finite(FALSE, 0, 0)

RECURSIVE Pow10(_)
Pow10(n) == IF n = 0 THEN 1 ELSE 10 * Pow10(n - 1)

\* f64's a <= b, for values that are no NaN
F64Le(a, b) ==
    IF a.class = "inf" THEN a.neg \/ (b.class = "inf" /\ ~b.neg)
    ELSE IF b.class = "inf" THEN ~b.neg
    ELSE LET sa == IF a.neg THEN 0 - a.num ELSE a.num
             sb == IF b.neg THEN 0 - b.num ELSE b.num
         IN  sa * Pow10(b.exp) <= sb * Pow10(a.exp)

\* TestEval
Score(f) == [tag |-> "Score", score |-> f]
TLE == [tag |-> "TLE"]
MLE == [tag |-> "MLE"]
RTE == [tag |-> "RTE"]

\* an evaluate_on_test that runs the scorer whatever the submission did
evaluate_on_testScoreAll(gen, sub, eval, limits, test_id, hasher) ==
    LET g == run_gen(gen[test_id], hasher)
    IN  IF g.ret.tag = "Err" THEN g
        ELSE
        LET x == run_sub(sub[g.ret.val], limits, g.hasher)
            e == run_eval(eval[<<test_id, sub[g.ret.val].stdout>>], x.hasher)
            ran == g.ran \o x.ran \o e.ran
        IN  IF x.ret.tag # "Ok" THEN [x EXCEPT !.ran = ran]
            ELSE IF x.ret.val.tag = "OK"
            THEN LET parsed == IF e.ret.tag = "Err" THEN e.ret
                               ELSE NotNan_from_str(trim(e.ret.val))
                 IN  [ret |-> IF parsed.tag = "Err" THEN parsed
                              ELSE Ok(Score(parsed.val)),
                      hasher |-> e.hasher, ran |-> ran]
            ELSE [ret |-> CASE x.ret.val.tag = "TLE" -> Ok(TLE)
                            [] x.ret.val.tag = "MLE" -> Ok(MLE)
                            [] x.ret.val.tag = "RTE" -> Ok(RTE)
                            [] x.ret.val.tag = "MFO" -> Ok(Score(Zero)),
                  hasher |-> e.hasher, ran |-> ran]

\* evaluate_on_test: gen, sub and eval are the modules, each a function from
\* what a run of it is given to what the run does
evaluate_on_test(gen, sub, eval, limits, test_id, hasher) ==
    LET g == run_gen(gen[test_id], hasher)
    IN  IF g.ret.tag = "Err" THEN g
        ELSE
        LET x == run_sub(sub[g.ret.val], limits, g.hasher)
            ran == g.ran \o x.ran
        IN  IF x.ret.tag # "Ok" THEN [x EXCEPT !.ran = ran]
            ELSE IF x.ret.val.tag = "OK"
            THEN LET e == run_eval(eval[<<test_id, x.ret.val.out>>], x.hasher)
                     parsed == IF e.ret.tag = "Err" THEN e.ret
                               ELSE NotNan_from_str(trim(e.ret.val))
                 IN  [ret |-> IF parsed.tag = "Err" THEN parsed
                              ELSE Ok(Score(parsed.val)),
                      hasher |-> e.hasher, ran |-> ran \o e.ran]
            ELSE [ret |-> CASE x.ret.val.tag = "TLE" -> Ok(TLE)
                            [] x.ret.val.tag = "MLE" -> Ok(MLE)
                            [] x.ret.val.tag = "RTE" -> Ok(RTE)
                            [] x.ret.val.tag = "MFO" -> Ok(Score(Zero)),
                  hasher |-> x.hasher, ran |-> ran]

\* evaluate_on_testset: the tests from x on, collected into a Result, which
\* stops at the first test that fails
RECURSIVE evaluate_on_testset(_, _, _, _, _, _, _)

\* collect(): the test's TestEval before those of the tests behind it
Collect(t, rest) ==
    [ret |-> IF rest.ret.tag # "Ok" THEN rest.ret ELSE Ok(<<t.ret.val>> \o rest.ret.val),
     hasher |-> rest.hasher, ran |-> t.ran \o rest.ran]

\* the closure of map on test x gave t: the tests behind x follow if t is Ok
TestThenRest(t, gen, sub, eval, limits, x, testset_length) ==
    IF t.ret.tag # "Ok" THEN t
    ELSE Collect(t, evaluate_on_testset(gen, sub, eval, limits, x + 1, testset_length,
                                        t.hasher))

evaluate_on_testset(gen, sub, eval, limits, x, testset_length, hasher) ==
    IF x >= testset_length THEN [ret |-> Ok(<<>>), hasher |-> hasher, ran |-> <<>>]
    ELSE TestThenRest(evaluate_on_test(gen, sub, eval, limits, x, hasher),
                      gen, sub, eval, limits, x, testset_length)

\* Iterator::max over NotNan<f64>: the last of the greatest elements
RECURSIVE MaxOf(_)
MaxOf(scores) ==
    IF Len(scores) = 1 THEN scores[1]
    ELSE LET m == MaxOf(SubSeq(scores, 1, Len(scores) - 1))
         IN  IF F64Le(m, scores[Len(scores)]) THEN scores[Len(scores)] ELSE m

\* evaluate_submission with the value of the last test in place of .max()
evaluate_submissionLast(gen, eval, sub, max_memory, max_cpu, testset_length) ==
    LET limits == [memory |-> max_memory, cpu |-> max_cpu]
        ev == evaluate_on_testset(gen, sub, eval, limits, 0, testset_length, HasherNew)
    IN  IF ev.ret.tag # "Ok" THEN [ret |-> ev.ret, ran |-> ev.ran]
        ELSE LET scores == [i \in 1 .. Len(ev.ret.val) |->
                               IF ev.ret.val[i].tag = "Score" THEN ev.ret.val[i].score
                               ELSE Zero]
             IN  [ret |-> IF Len(scores) = 0 THEN Err("max err")
                          ELSE Ok(<<scores[Len(scores)], HasherFinalize(ev.hasher)>>),
                  ran |-> ev.ran]

\* evaluate_submission, for modules that Module::from_binary accepts
evaluate_submission(gen, eval, sub, max_memory, max_cpu, testset_length) ==
    LET limits == [memory |-> max_memory, cpu |-> max_cpu]
        ev == evaluate_on_testset(gen, sub, eval, limits, 0, testset_length, HasherNew)
    IN  IF ev.ret.tag # "Ok" THEN [ret |-> ev.ret, ran |-> ev.ran]
        ELSE LET scores == [i \in 1 .. Len(ev.ret.val) |->
                               IF ev.ret.val[i].tag = "Score" THEN ev.ret.val[i].score
                               ELSE Zero]
             IN  [ret |-> IF Len(scores) = 0 THEN Err("max err")
                          ELSE Ok(<<MaxOf(scores), HasherFinalize(ev.hasher)>>),
                  ran |-> ev.ran]

(***************************************************************************)
(* SpecSandbox: one call of run_sub, one call of evaluate_on_test, or two *)
(* workers that each call evaluate_submission once, on drawn modules.     *)
(***************************************************************************)
\* how many tests a drawn testset has at most
MaxTests == 2
Workers == {1, 2}

\* tests::eval_sub: Limits { memory: 2000000, cpu: 100000 }
TestLimits == [memory |-> 2000000, cpu |-> 100000]

Run(setup, result, memory, fuel_used, stdout, pipe) ==
    [setup |-> setup, result |-> result, memory |-> memory, fuel_used |-> fuel_used,
     stdout |-> stdout, pipe |-> pipe]

\* the ways a call of _start ends
CallResults ==
    {CallOk} \cup {CallTrap(t) : t \in Traps}
        \cup {CallError(GrowFailureMsg), CallError(ExitMsg("1"))}

\* the runs of a submission drawn for run_sub
SubRuns ==
    {Run(setup, result, memory, fuel_used, stdout, pipe) :
        setup \in {"ok", "err"}, result \in CallResults,
        memory \in {None, Some(<<0, 97>>)}, fuel_used \in {7, 258},
        stdout \in {<<"1", "7", "\n">>, NotUtf8}, pipe \in {"unique", "shared"}}

\* the runs drawn for evaluate_on_test: a generator that writes "17\n" or
\* traps, a submission that ends in each way, a scorer that writes each of
\* ScorerOutputs or traps
GenRuns ==
    {Run("ok", CallOk, Some(<<1>>), 0, <<"1", "7", "\n">>, "unique"),
     Run("ok", CallTrap("UnreachableCodeReached"), Some(<<1>>), 0, <<>>, "unique")}
TestSubRuns ==
    {Run("ok", result, Some(<<2>>), 258, <<"1", "7", "\n">>, "unique") :
        result \in CallResults}
    \cup {Run("ok", CallOk, Some(<<2>>), 258, <<"1", "7", "\n">>, "shared"),
          Run("ok", CallOk, Some(<<2>>), 258, NotUtf8, "unique"),
          Run("err", CallOk, Some(<<2>>), 258, <<>>, "unique")}
ScorerOutputs ==
    {<<"1">>, <<"0">>, <<"1", "\n">>, <<" ", "0", ".", "5", "\n">>, <<"1", ".", "0">>,
     <<"0", ".", "7", "5">>, <<".", "5">>, <<"1", ".">>, <<"-", "0">>,
     <<"2">>, <<"1", ".", "5">>, <<"-", "1">>, <<"-", "0", ".", "5">>,
     <<"i", "n", "f">>, <<"+", "I", "n", "f", "i", "n", "i", "t", "y">>,
     <<"-", "i", "n", "f">>, <<"N", "a", "N">>, <<"a", "b", "c">>, <<>>,
     <<"1", " ", "2">>, <<".">>, <<"\n">>}
EvalRuns ==
    {Run("ok", CallOk, Some(<<3>>), 0, out, "unique") : out \in ScorerOutputs}
    \cup {Run("ok", CallTrap("UnreachableCodeReached"), Some(<<3>>), 0, <<>>, "unique")}

\* the modules drawn for evaluate_submission: per test a generator run, per
\* generated input a submission run, per test a scorer run
TestIds == 0 .. MaxTests - 1
GenInputs == {<<"a">>, <<"b">>}
SubOutput == <<"x">>
GenModules ==
    [TestIds -> {Run("ok", CallOk, Some(<<1>>), 0, <<"a">>, "unique"),
                 Run("ok", CallOk, None, 0, <<"b">>, "unique")}]
SubModules ==
    [GenInputs -> {Run("ok", CallOk, Some(<<2>>), 7, SubOutput, "unique"),
                   Run("ok", CallTrap("OutOfFuel"), Some(<<3>>), 258, <<>>, "unique"),
                   Run("ok", CallError(ExitMsg("1")), Some(<<4>>), 7, <<>>, "unique")}]
EvalModules ==
    [TestIds \X {SubOutput} ->
        {Run("ok", CallOk, Some(<<5>>), 0, <<"1">>, "unique"),
         Run("ok", CallOk, Some(<<6>>), 0, <<"0", ".", "5">>, "unique"),
         Run("ok", CallOk, None, 0, <<"a", "b", "c">>, "unique")}]

InitSandbox ==
    /\ \/ \E run \in SubRuns : input = [fn |-> "run_sub", run |-> run]
       \/ \E g \in GenRuns, x \in TestSubRuns, e \in EvalRuns :
             input = [fn |-> "evaluate_on_test", gen |-> g, sub |-> x, eval |-> e]
       \/ \E gen \in GenModules, sub \in SubModules, eval \in EvalModules,
             testset_length \in 0 .. MaxTests :
             input = [fn |-> "evaluate_submission", gen |-> gen, sub |-> sub,
                      eval |-> eval, testset_length |-> testset_length]
    /\ output = NoOutput
    /\ EvalIdle
    /\ FileIdle
    /\ NetIdle
    /\ ClientIdle
    /\ InitStateIdle

\* run_sub
CallRunSub ==
    /\ input.fn = "run_sub"
    /\ output = NoOutput
    /\ output' = [fn |-> "run_sub", ret |-> run_sub(input.run, TestLimits, HasherNew).ret]
    /\ UNCHANGED input
    /\ UNCHANGED <<evalVars, fileVars, netVars, clientVars, initVars>>

\* evaluate_on_test, of test 0
CallEvaluateOnTest ==
    /\ input.fn = "evaluate_on_test"
    /\ output = NoOutput
    /\ LET gen == [t \in {0} |-> input.gen]
           sub == [i \in {input.gen.stdout} |-> input.sub]
           eval == [p \in {<<0, input.sub.stdout>>} |-> input.eval]
       IN  output' = [fn |-> "evaluate_on_test",
                      ret |-> evaluate_on_test(gen, sub, eval, TestLimits, 0, HasherNew).ret]
    /\ UNCHANGED input
    /\ UNCHANGED <<evalVars, fileVars, netVars, clientVars, initVars>>

\* evaluate_submission, on worker w
CallEvaluateSubmission(w) ==
    /\ input.fn = "evaluate_submission"
    /\ LET rets == IF output = NoOutput THEN [v \in Workers |-> None] ELSE output.rets
       IN  /\ rets[w] = None
           /\ output' =
                 [fn |-> "evaluate_submission",
                  rets |-> [rets EXCEPT ![w] =
                               Some(evaluate_submission(input.gen, input.eval, input.sub,
                                                        TestLimits.memory, TestLimits.cpu,
                                                        input.testset_length))]]
    /\ UNCHANGED input
    /\ UNCHANGED <<evalVars, fileVars, netVars, clientVars, initVars>>

NextSandbox ==
    \/ CallRunSub
    \/ CallEvaluateOnTest
    \/ \E w \in Workers : CallEvaluateSubmission(w)

SpecSandbox == InitSandbox /\ [][NextSandbox]_vars

\* the run of the submission got as far as the call of _start and the call
\* ended in an error
C18_AbnormalEnd(run) == run.setup = "ok" /\ ~run.result.ok

\* the verdict of an abnormal end
C18_Verdict(run) ==
    IF run.result.trap = Some("OutOfFuel") THEN TLE
    ELSE IF \/ run.result.trap \in {Some("MemoryOutOfBounds"), Some("TableOutOfBounds")}
            \/ run.result.msg = GrowFailureMsg
    THEN MLE
    ELSE RTE

\* C18: for every way the submission's run ends abnormally (fuel exhausted,
\* memory or table out of bounds, memory-grow failure, any other trap, any
\* other error such as a non-zero exit) run_sub returns a verdict, OutOfFuel
\* -> TLE, MemoryOutOfBounds / TableOutOfBounds / grow failure -> MLE,
\* everything else -> RTE, and the evaluation returns no error because of it.
C18_FailuresAreVerdicts ==
    /\ (output.fn = "run_sub" /\ C18_AbnormalEnd(input.run))
          => output.ret = Ok(C18_Verdict(input.run))
    /\ (/\ output.fn = "evaluate_on_test"
        /\ input.gen.result.ok
        /\ C18_AbnormalEnd(input.sub))
          => output.ret = Ok(C18_Verdict(input.sub))

\* a finite f with 0 <= f <= 1
C19_InUnitInterval(f) ==
    /\ f.class = "finite"
    /\ f.num = 0 \/ ~f.neg
    /\ f.num <= Pow10(f.exp)

\* C19: when the submission ran OK, the test's result is Score(f) only if the
\* scorer's trimmed stdout parses as a finite f with 0 <= f <= 1; for any
\* other scorer output (unparsable, NaN, infinite, negative, greater than 1)
\* the evaluation fails with an error.
C19_ScorerOutputValidated ==
    (/\ output.fn = "evaluate_on_test"
     /\ input.gen.result.ok
     /\ input.sub.setup = "ok" /\ input.sub.result.ok
     /\ input.sub.pipe = "unique" /\ input.sub.stdout # NotUtf8
     /\ input.eval.result.ok)
        => LET p == f64_from_str(trim(input.eval.stdout))
           IN  IF p.tag = "Ok" /\ C19_InUnitInterval(p.val)
               THEN output.ret = Ok(Score(p.val))
               ELSE output.ret.tag = "Err"

\* the n big-endian bytes of x
RECURSIVE C20_BigEndian(_, _)
C20_BigEndian(x, n) ==
    IF n = 0 THEN <<>> ELSE C20_BigEndian(x \div 256, n - 1) \o <<x % 256>>

\* what the executions, in their order, give the digest: each one's final
\* memory image and, if it was metered, its consumed fuel in 8 bytes
RECURSIVE C20_Feed(_)
C20_Feed(ran) ==
    IF Len(ran) = 0 THEN <<>>
    ELSE (IF ran[1].memory = None THEN <<>> ELSE ran[1].memory[1])
         \o (IF ran[1].metered THEN C20_BigEndian(ran[1].fuel_used, 8) ELSE <<>>)
         \o C20_Feed(Tail(ran))

C21_TestRet(x) ==
    evaluate_on_test(input.gen, input.sub, input.eval, TestLimits, x, HasherNew).ret

\* the value a test counts with: f for Score(f), 0 for TLE, MLE and RTE
C21_Value(x) ==
    IF C21_TestRet(x).val.tag = "Score" THEN C21_TestRet(x).val.score ELSE Zero

\* no test of the testset raises an evaluation error
C21_NoTestFails ==
    \A x \in 0 .. input.testset_length - 1 : C21_TestRet(x).tag = "Ok"

\* m is the greatest of the values of the tests
C21_IsMax(m) ==
    /\ \E x \in 0 .. input.testset_length - 1 :
          F64Le(m, C21_Value(x)) /\ F64Le(C21_Value(x), m)
    /\ \A x \in 0 .. input.testset_length - 1 : F64Le(C21_Value(x), m)

\* C21 as stated: for every testset_length >= 0 for which no test raises an
\* evaluation error, evaluate_submission returns Ok((m, digest)), m being
\* the maximum over the tests of the per-test value (Score(f) as f, TLE, MLE
\* and RTE as 0).
C21_AggregateVerdict ==
    (output.fn = "evaluate_submission" /\ C21_NoTestFails) =>
        \A w \in Workers :
            output.rets[w] # None =>
                /\ output.rets[w][1].ret.tag = "Ok"
                /\ C21_IsMax(output.rets[w][1].ret.val[1])

\* C21, amended: the same for every testset_length >= 1; for testset_length
\* = 0 there is no maximum and evaluate_submission returns the error "max err".
C21_AggregateVerdictNonEmpty ==
    output.fn = "evaluate_submission" =>
        \A w \in Workers :
            output.rets[w] # None =>
                IF input.testset_length = 0
                THEN output.rets[w][1].ret = Err("max err")
                ELSE C21_NoTestFails =>
                        /\ output.rets[w][1].ret.tag = "Ok"
                        /\ C21_IsMax(output.rets[w][1].ret.val[1])

\* a worker returned the maximum 1 of a testset whose first test scores 1
\* and whose second test ran out of fuel
C21_Witness ==
    /\ output.fn = "evaluate_submission"
    /\ input.testset_length = 2
    /\ C21_NoTestFails
    /\ C21_TestRet(0) = Ok(Score(Finite(FALSE, 1, 0)))
    /\ C21_TestRet(1) = Ok(TLE)
    /\ \E w \in Workers :
          /\ output.rets[w] # None
          /\ output.rets[w][1].ret.tag = "Ok"
          /\ output.rets[w][1].ret.val[1] = Finite(FALSE, 1, 0)

(***************************************************************************)
(* SpecTransfer: a sender that stored a file with add_done and a receiver *)
(* that registers it with add_new and is fed the chunks of the sender's   *)
(* get_enc_chunk, in any order and any number of times.  The store of the *)
(* file variables is the receiver's; the sender's store holds the one     *)
(* file of its add_done call, whose arguments are `input`.                *)
(***************************************************************************)
\* the FullFile in the sender's store
SenderFile == FullFileNew(input.data, input.enc_key)

\* the chunk indices of the sender's file
SenderChunks == 0 .. ((Len(input.data) + ChunkSize - 1) \div ChunkSize) - 1

InitTransfer ==
    /\ \E data \in Files \ {<<>>}, k \in EncKeys :
          /\ input = [fn |-> "add_done", data |-> data, enc_key |-> k]
          /\ tracked = Blake3(data)
    /\ output = NoOutput
    /\ file_parts = <<>>
    /\ full_files = <<>>
    /\ file_ret = "init"
    /\ EvalIdle
    /\ NetIdle
    /\ ClientIdle
    /\ InitStateIdle

\* the receiver registers the file it is about to be sent
RegisterTransfer ==
    /\ tracked \notin DOMAIN file_parts
    /\ tracked \notin Resolved(full_files)
    /\ AddNew(tracked, Len(input.data), input.enc_key)

\* the sender's get_enc_chunk(chunki) reaches the receiver's add_enc_chunk
TransferChunk(chunki, nonce) ==
    AddEncChunk(tracked, chunki, get_enc_chunk(SenderFile, chunki, nonce))

NextTransfer ==
    \/ RegisterTransfer
    \/ \E chunki \in SenderChunks, nonce \in EncNonces : TransferChunk(chunki, nonce)
    \/ GetFile(tracked)

SpecTransfer == InitTransfer /\ [][NextTransfer]_vars

\* the chunks the receiver's partial entry still lacks
C22_Missing == {i \in SenderChunks : ~file_parts[tracked].present[i + 1]}

\* what a call of add_enc_chunk on the partial entry returns and does: the
\* last missing chunk promotes the file with the sender's bytes, any other
\* call is in progress
C22_ChunkStep(chunki) ==
    IF C22_Missing = {chunki}
    THEN /\ file_ret' = "Some(true)"
         /\ tracked \in Resolved(full_files')
         /\ full_files'[tracked][1].data = input.data
    ELSE /\ file_ret' = "Some(false)"
         /\ tracked \notin Resolved(full_files')
         /\ tracked \in DOMAIN file_parts'
         /\ {i \in SenderChunks : ~file_parts'[tracked].present[i + 1]}
               = C22_Missing \ {chunki}

\* a handle of get_file is the cell under the hash: the cell stays, and once
\* it is resolved it keeps its bytes
C22_HandleKept ==
    tracked \in DOMAIN full_files =>
        /\ tracked \in DOMAIN full_files'
        /\ full_files[tracked] # None => full_files'[tracked] = full_files[tracked]

\* C22: a receiver that registered add_new(hash(B), len(B), key) and is fed
\* the sender's get_enc_chunk(i) in any order, duplicates included, is
\* promoted by the call that supplies the last missing chunk, which returns
\* Some(true), every earlier call returning Some(false); the promoted bytes
\* are B, and the cell that every get_file handle shares, obtained before or
\* after, resolves to B.
C22_ChunkedRoundTrip ==
    /\ [](tracked \in Resolved(full_files)
             => full_files[tracked][1].data = input.data)
    /\ [](tracked \in DOMAIN file_parts => C22_Missing # {})
    /\ [][/\ C22_HandleKept
          /\ \A chunki \in SenderChunks, nonce \in EncNonces :
                (TransferChunk(chunki, nonce) /\ tracked \in DOMAIN file_parts)
                    => C22_ChunkStep(chunki)]_vars

\* a file of two chunks whose first and last bytes differ was promoted by
\* the call that has just returned Some(true), with the sender's bytes
C22_Witness ==
    /\ Len(input.data) = MaxFileSize
    /\ input.data[1] # input.data[MaxFileSize]
    /\ file_ret = "Some(true)"
    /\ tracked \in Resolved(full_files)
    /\ full_files[tracked][1].data = input.data
    /\ tracked \notin DOMAIN file_parts

(***************************************************************************)
(* SpecDownload: a receiver whose first call registers the file with      *)
(* add_new, under key 1, and that is then sent any chunks at all, so that *)
(* a reassembled buffer may differ from the file the hash names.          *)
(***************************************************************************)
NextDownload ==
    \/ \E size \in 0 .. MaxFileSize : AddNew(tracked, size, 1)
    \/ /\ file_ret # "init"
       /\ \E chunki \in ChunkIndexes, piece \in EncryptedChunks :
             AddEncChunk(tracked, chunki, piece)
    \/ /\ file_ret # "init"
       /\ GetFile(tracked)

SpecDownload == InitFile /\ [][NextDownload]_vars

\* the chunks the partial entry lacks, counted from 0
C23_Missing ==
    {i \in 0 .. Len(file_parts[tracked].present) - 1 :
        ~file_parts[tracked].present[i + 1]}

\* the piece decrypts and the buffer it completes as chunk chunki does not
\* hash to the registered hash
C23_CompletesWrong(chunki, piece) ==
    /\ EncryptedInner(piece, file_parts[tracked].enc_key) # None
    /\ Blake3(parts_add_enc_chunk(file_parts[tracked], chunki, piece).data) # tracked

\* C23: when add_enc_chunk supplies the last missing chunk and the
\* reassembled buffer does not hash to the registered hash, the partial
\* entry is removed, no fully received entry is created or resolved and the
\* call returns the failure result None; afterwards every chunk for the hash
\* is rejected with None and changes nothing, and only add_new brings a
\* partial entry back.
C23_HashMismatchDropsPartial ==
    [][/\ (tracked \in DOMAIN file_parts /\ Cardinality(C23_Missing) = 1) =>
             \A chunki \in C23_Missing, piece \in EncryptedChunks :
                (C23_CompletesWrong(chunki, piece) /\ AddEncChunk(tracked, chunki, piece))
                   => /\ tracked \notin DOMAIN file_parts'
                      /\ full_files' = full_files
                      /\ file_ret' = "None"
       /\ (/\ tracked \notin DOMAIN file_parts
           /\ \E chunki \in ChunkIndexes, piece \in EncryptedChunks :
                 AddEncChunk(tracked, chunki, piece))
                => /\ file_ret' = "None"
                   /\ file_parts' = file_parts
                   /\ full_files' = full_files
       /\ (tracked \notin DOMAIN file_parts /\ tracked \in DOMAIN file_parts')
             => file_ret' = "unit"]_vars

\* a registered file of two chunks was dropped: the last call returned None,
\* no partial entry is left and the file was never promoted, which after
\* add_new only a completed buffer of another hash brings about
C23_Witness ==
    /\ file_ret = "None"
    /\ tracked \notin DOMAIN file_parts
    /\ tracked \notin Resolved(full_files)
    /\ tracked = Blake3(<<1, 0, 1>>)

(***************************************************************************)
(* Client::handle_queue_message: client/src/client.rs                     *)
(*                                                                         *)
(* A call is a future that runs up to its next await in one step: the     *)
(* insert into queue_buffer, the lock of the queue mutex, and each turn   *)
(* of the loop.  Calls overlap, as spawned tasks do; a call that returned *)
(* leaves `calls`.  Ids stay far below u32::MAX.                          *)
(***************************************************************************)
\* the greatest QueueMessageId that arrives
MaxQueueId == 2
\* how many calls are in flight at most
MaxInFlight == 2

QueueIds == 0 .. MaxQueueId
QueuePayloads == {"p", "q"}
CallSlots == 1 .. MaxInFlight

\* handle_queue_message(m), up to the lock: insert_async fails for an id
\* that is in the buffer, and the call returns
HandleQueueInsert(c, id, payload) ==
    /\ c \notin DOMAIN calls
    /\ IF id \in DOMAIN queue_buffer
       THEN UNCHANGED <<queue_buffer, calls>>
       ELSE /\ queue_buffer' = MapPut(queue_buffer, id, payload)
            /\ calls' = MapPut(calls, c, [fn |-> "handle_queue_message", pc |-> "lock"])
    /\ UNCHANGED <<next_message_id, committed>>
    /\ UNCHANGED <<evalVars, fileVars, pureVars, netVars, initVars>>

\* self.queue.lock().await: granted when no call holds the guard
HandleQueueLock(c) ==
    /\ c \in DOMAIN calls
    /\ calls[c].pc = "lock"
    /\ \A d \in DOMAIN calls : calls[d].pc # "loop"
    /\ calls' = [calls EXCEPT ![c].pc = "loop"]
    /\ UNCHANGED <<queue_buffer, next_message_id, committed>>
    /\ UNCHANGED <<evalVars, fileVars, pureVars, netVars, initVars>>

\* a loop whose body runs once at most
HandleQueueLoopOnce(c) ==
    /\ c \in DOMAIN calls
    /\ calls[c].pc = "loop"
    /\ IF next_message_id \in DOMAIN queue_buffer
       THEN /\ next_message_id' = next_message_id + 1
            /\ committed' = Append(committed, next_message_id)
       ELSE UNCHANGED <<next_message_id, committed>>
    /\ calls' = MapRemove(calls, c)
    /\ UNCHANGED queue_buffer
    /\ UNCHANGED <<evalVars, fileVars, pureVars, netVars, initVars>>

\* one turn of `while let Some(m) = self.queue_buffer.get_async(..).await`:
\* the body takes the message of next_message_id, or the loop ends, the
\* guard is dropped and the call returns
HandleQueueLoop(c) ==
    /\ c \in DOMAIN calls
    /\ calls[c].pc = "loop"
    /\ IF next_message_id \in DOMAIN queue_buffer
       THEN /\ next_message_id' = next_message_id + 1
            /\ committed' = Append(committed, next_message_id)
            /\ UNCHANGED calls
       ELSE /\ calls' = MapRemove(calls, c)
            /\ UNCHANGED <<next_message_id, committed>>
    /\ UNCHANGED queue_buffer
    /\ UNCHANGED <<evalVars, fileVars, pureVars, netVars, initVars>>

InitQueue ==
    /\ ClientIdle
    /\ InitStateIdle
    /\ EvalIdle
    /\ FileIdle
    /\ PureIdle
    /\ NetIdle

NextQueue ==
    \E c \in CallSlots :
        \/ \E id \in QueueIds, payload \in QueuePayloads : HandleQueueInsert(c, id, payload)
        \/ HandleQueueLock(c)
        \/ HandleQueueLoop(c)

SpecQueue == InitQueue /\ [][NextQueue]_vars

\* the smallest id that has not been received
C24_SmallestMissing ==
    CHOOSE i \in 0 .. MaxQueueId + 1 :
        i \notin DOMAIN queue_buffer /\ \A j \in 0 .. i - 1 : j \in DOMAIN queue_buffer

IncKeepaliveCount(c, n) ==
    /\ c \notin DOMAIN calls
    /\ keepalivers[n] < MaxKeepalivers
    /\ keepalivers' = [keepalivers EXCEPT ![n] = @ + 1]
    /\ calls' = IF keepalivers[n] + 1 = 1
                THEN MapPut(calls, c, [fn |-> "inc_keepalive", pc |-> "connections"])
                ELSE calls
    /\ net_ret' = NoCall
    /\ UNCHANGED <<psk_to_addr, addr_to_psk, initting, connections, kex_loops,
                   ka_tasks, network, next_key>>
    /\ UNCHANGED <<queue_buffer, next_message_id, committed>>
    /\ UNCHANGED <<evalVars, fileVars, pureVars, initVars>>

\* inc_keepalive with cnt == 1, from self.connections.get_async(&psk).await on
IncKeepaliveStart(c, n) ==
    /\ c \in DOMAIN calls
    /\ calls[c].fn = "inc_keepalive"
    /\ IF connections[n] # None
       THEN LET r == start_ka(connections[n][1], ka_tasks[n])
            IN  /\ connections' = [connections EXCEPT ![n] = Some(r.c)]
                /\ ka_tasks' = [ka_tasks EXCEPT ![n] = r.tasks]
                /\ UNCHANGED <<initting, kex_loops, next_key>>
       ELSE IF psk_to_addr[n] # None
       THEN LET addr == psk_to_addr[n][1]
            IN  /\ SpawnKexLoop(n, addr)
                /\ initting' =
                      IF addr \in DOMAIN initting[n] THEN initting
                      ELSE [initting EXCEPT
                               ![n] = MapPut(@, addr, new_initting(n, addr))]
                /\ UNCHANGED <<connections, ka_tasks>>
       ELSE UNCHANGED <<connections, ka_tasks, initting, kex_loops, next_key>>
    /\ calls' = MapRemove(calls, c)
    /\ net_ret' = NoCall
    /\ UNCHANGED <<keepalivers, psk_to_addr, addr_to_psk, network>>
    /\ UNCHANGED <<queue_buffer, next_message_id, committed>>
    /\ UNCHANGED <<evalVars, fileVars, pureVars, initVars>>

\* dec_keepalive, the block that yields cnt: the call returns at once unless
\* cnt == 0
DecKeepaliveCount(c, n) ==
    /\ c \notin DOMAIN calls
    /\ keepalivers' = [keepalivers EXCEPT ![n] = IF @ # 0 THEN @ - 1 ELSE @]
    /\ calls' = IF keepalivers[n] <= 1
                THEN MapPut(calls, c, [fn |-> "dec_keepalive", pc |-> "connections"])
                ELSE calls
    /\ net_ret' = NoCall
    /\ UNCHANGED <<psk_to_addr, addr_to_psk, initting, connections, kex_loops,
                   ka_tasks, network, next_key>>
    /\ UNCHANGED <<queue_buffer, next_message_id, committed>>
    /\ UNCHANGED <<evalVars, fileVars, pureVars, initVars>>

\* dec_keepalive with cnt == 0, from self.connections.get_async(&psk).await on
DecKeepaliveAbort(c, n) ==
    /\ c \in DOMAIN calls
    /\ calls[c].fn = "dec_keepalive"
    /\ IF connections[n] # None
       THEN LET r == abort_ka(connections[n][1], ka_tasks[n])
            IN  /\ connections' = [connections EXCEPT ![n] = Some(r.c)]
                /\ ka_tasks' = [ka_tasks EXCEPT ![n] = r.tasks]
       ELSE UNCHANGED <<connections, ka_tasks>>
    /\ calls' = MapRemove(calls, c)
    /\ net_ret' = NoCall
    /\ UNCHANGED <<keepalivers, psk_to_addr, addr_to_psk, initting, kex_loops,
                   network, next_key>>
    /\ UNCHANGED <<queue_buffer, next_message_id, committed>>
    /\ UNCHANGED <<evalVars, fileVars, pureVars, initVars>>

NextKeepaliveTasks ==
    \/ UpdatePeerAddr("A", OwnAddr("B"))
    \/ \E c \in CallSlots : IncKeepaliveCount(c, "A")
    \/ \E c \in CallSlots : IncKeepaliveStart(c, "A")
    \/ \E c \in CallSlots : DecKeepaliveCount(c, "A")
    \/ \E c \in CallSlots : DecKeepaliveAbort(c, "A")
    \/ \E n \in Nodes : \E task \in kex_loops[n] : KexLoopSend(n, task)
    \/ \E n \in Nodes : \E m \in network : HandleMerkle(n, m)

SpecKeepaliveTasks == InitNet /\ [][NextKeepaliveTasks]_vars

\* C25: once the overlapping calls of inc_keepalive and dec_keepalive (and
\* update_peer_addr and the Merkle handling) on a node have all completed,
\* the keep-alive task of the peer's Connection is live if and only if
\* keepalivers[peer] > 0.
C25_LiveIffCountedWhenQuiet ==
    (calls = <<>> /\ connections["A"] # None)
        => (KaLive("A") <=> keepalivers["A"] > 0)

(***************************************************************************)
(* The steps of one evaluator, under SpecEval                             *)
(***************************************************************************)
\* the slots of the evaluator a message names: one, or none if the request
\* does not name it
C26_Named(psk) == {i \in 1 .. Len(info) : info[i].evaluator = psk}

\* C26: add_evaluation(e) moves the evaluator named in e from None to
\* Provisional(e.score, e.detailhs_hash) and changes no other evaluator; it
\* changes nothing if that evaluator is Provisional, Final or Failed, or if
\* the request does not name it.
C26_CommitStep ==
    \A e \in QEvaluations :
        LET v == add_evaluation(info, e)
        IN  /\ Len(v) = Len(info)
            /\ \A i \in 1 .. Len(info) :
                  IF i \in C26_Named(e.evaluator) /\ info[i].state = StNone
                  THEN /\ v[i].evaluator = info[i].evaluator
                       /\ v[i].state = StProvisional(e.score, e.detailhs_hash)
                  ELSE v[i] = info[i]

\* the first evaluator is Provisional with score 1 under the commitment to
\* digest 1, the second is past Provisional and the third is still None
C26_Witness ==
    /\ Len(info) = MaxEvaluators
    /\ info[1].state = StProvisional(1, KeyedHash(1, get_public_hash_data(1)))
    /\ info[2].state.tag \in {"Final", "Failed"}
    /\ info[MaxEvaluators].state = StNone

\* C27: for an evaluator in Provisional(score, h), add_evaluation_proof(ep)
\* moves it to Final(score, ep.detailhs) when the keyed hash of the hashed
\* evaluation id under ep.detailhs equals h, and to Failed when it differs;
\* on every step that makes an evaluator Final, its score is the one it had
\* in Provisional.
C27_RevealStep ==
    /\ [](\A ep \in QEvaluationProofs :
            LET v == add_evaluation_proof(info, ep)
            IN  \A i \in C26_Named(ep.evaluator) :
                    info[i].state.tag = "Provisional" =>
                        IF KeyedHash(ep.detailhs, get_public_hash_data(ep.evaluator))
                              = info[i].state.hash
                        THEN v[i].state = StFinal(info[i].state.score, ep.detailhs)
                        ELSE v[i].state = StFailed)
    /\ [][\A i \in 1 .. Len(info) :
             (info'[i].state.tag = "Final" /\ info[i].state.tag # "Final")
                => /\ info[i].state.tag = "Provisional"
                   /\ info'[i].state.score = info[i].state.score]_vars

\* one evaluator is Final with score 1 and the digest it revealed, another
\* is Failed
C27_Witness ==
    /\ Len(info) = MaxEvaluators
    /\ info[1].state = StFinal(1, 2)
    /\ info[2].state = StFailed

\* C28: add_evaluation_proof for an evaluator that is None, Final or Failed,
\* or that the request does not name, leaves every evaluator as it is; no
\* step takes an evaluator out of Final or Failed; and an evaluator whose
\* proof arrived before its Evaluation is still None and becomes Provisional
\* and then Final with the messages that follow.
C28_RevealOutsideProvisional ==
    /\ [](\A ep \in QEvaluationProofs :
            (\A i \in C26_Named(ep.evaluator) : info[i].state.tag # "Provisional")
                => add_evaluation_proof(info, ep) = info)
    /\ [][\A i \in 1 .. Len(info) :
             info[i].state.tag \in {"Final", "Failed"} => info'[i] = info[i]]_vars
    /\ [](\A i \in 1 .. Len(info) :
            info[i].state = StNone =>
                \A early \in QEvaluationProofs :
                    early.evaluator = info[i].evaluator =>
                        \E e \in QEvaluations, ep \in QEvaluationProofs :
                            add_evaluation_proof(
                                add_evaluation(add_evaluation_proof(info, early), e),
                                ep)[i].state.tag = "Final")

\* an evaluator is Final, one is Failed and one is None: the states in which
\* a proof changes nothing
C28_Witness ==
    /\ Len(info) = MaxEvaluators
    /\ info[1].state = StNone
    /\ info[2].state.tag = "Final"
    /\ info[MaxEvaluators].state = StFailed

\* the evaluators that are Provisional or Final
C29_Observed(v) == {i \in 1 .. Len(v) : v[i].state.tag \in {"Provisional", "Final"}}

\* C29: provisional_score() returns the score of the evaluator whose
\* Evaluation was observed first among those that are Provisional or Final,
\* and None iff there is none: while the one evaluator that was observed
\* before all others stays Provisional or Final, its score is returned,
\* whoever is observed after it.
C29_FirstObservedScore ==
    /\ [](provisional_score(info) = None <=> C29_Observed(info) = {})
    /\ [][\A i \in 1 .. Len(info) :
             (C29_Observed(info) = {i} /\ i \in C29_Observed(info'))
                => provisional_score(info') = Some(info[i].state.score)]_vars

\* C29 as the code has it: provisional_score() returns the score of the
\* evaluator that comes first in the request's evaluator list among those
\* that are Provisional or Final, whenever their Evaluations arrived, and
\* None iff there is none.
C29_FirstListedScore ==
    /\ provisional_score(info) = None <=> C29_Observed(info) = {}
    /\ \A i \in C29_Observed(info) :
          (\A j \in C29_Observed(info) : i <= j)
              => provisional_score(info) = Some(info[i].state.score)

\* the first listed evaluator has no score to give, the second is Provisional
\* with score 0 and the third is Final with score 1
C29_Witness ==
    /\ Len(info) = MaxEvaluators
    /\ info[1].state.tag \in {"None", "Failed"}
    /\ info[2].state.tag = "Provisional" /\ info[2].state.score = 0
    /\ info[MaxEvaluators].state.tag = "Final" /\ info[MaxEvaluators].state.score = 1
    /\ provisional_score(info) = Some(0)

(***************************************************************************)
(* Commitment and reveal: QEvaluation and QEvaluationProof, message.rs     *)
(***************************************************************************)
\* QEvaluation::new: the commitment to the proof's digest.  With one
\* submission the evaluation id is the field 'evaluator'.
QEvaluationNew(evp, s) ==
    [evaluator |-> evp.evaluator,
     score |-> s,
     detailhs_hash |-> KeyedHash(evp.detailhs, get_public_hash_data(evp.evaluator))]

\* QEvaluationProof::check
QEvaluationProofCheck(evp, ev) ==
    /\ evp.evaluator # ev.evaluator
    /\ KeyedHash(evp.detailhs, get_public_hash_data(ev.evaluator)) = ev.detailhs_hash

InitCommit ==
    /\ \E evp \in QEvaluationProofs, s \in SubScores, other \in QEvaluationProofs :
          input = [fn |-> "commit", evp |-> evp, score |-> s, other |-> other]
    /\ output = NoOutput
    /\ EvalIdle
    /\ FileIdle
    /\ NetIdle
    /\ ClientIdle
    /\ InitStateIdle

\* ev = QEvaluation::new(evp, score), then evp.check(&ev), evp.hash() and
\* other.check(&ev)
CallCommit ==
    /\ input.fn = "commit"
    /\ output = NoOutput
    /\ LET ev == QEvaluationNew(input.evp, input.score)
       IN  output' = [fn |-> "commit",
                      ev |-> ev,
                      check |-> QEvaluationProofCheck(input.evp, ev),
                      hash |-> ProofHash(input.evp),
                      check_other |-> QEvaluationProofCheck(input.other, ev)]
    /\ UNCHANGED input
    /\ UNCHANGED <<evalVars, fileVars, netVars, clientVars, initVars>>

NextCommit == CallCommit

SpecCommit == InitCommit /\ [][NextCommit]_vars

\* C30: for every proof evp and score s the commitment
\* ev = QEvaluation::new(evp, s) is accepted by its own reveal, that is
\* evp.check(&ev) is true and evp.hash() = ev.detailhs_hash, and a proof for
\* the same evaluation id whose detailhs does not hash to the committed
\* value is rejected by check.
C30_CommitRevealRoundTrip ==
    output.fn = "commit" =>
        /\ output.check
        /\ output.hash = output.ev.detailhs_hash
        /\ (/\ input.other.evaluator = input.evp.evaluator
            /\ ProofHash(input.other) # output.ev.detailhs_hash)
               => ~output.check_other

C32_HeldLoops(n) == {initting[n][a].ah : a \in DOMAIN initting[n]}

\* C32: every live send_kex_loop task has its AbortHandle in the initting
\* entry of its (peer, address) pair; handling a Merkle or calling
\* inc_keepalive for a pair that has an entry starts no further loop; and
\* dec_keepalive taking the count to 0 before the handshake is done leaves
\* no send loop running for the peer.
C32_NoOrphanedKexLoops ==
    /\ [](\A n \in Nodes : kex_loops[n] \subseteq C32_HeldLoops(n))
    /\ [][\A n \in Nodes :
             /\ \A m \in network :
                   (HandleMerkle(n, m) /\ m.src \in DOMAIN initting[n])
                      => kex_loops'[n] \subseteq kex_loops[n]
             /\ (IncKeepalive(n) /\ psk_to_addr[n] # None
                    /\ psk_to_addr[n][1] \in DOMAIN initting[n])
                   => kex_loops'[n] \subseteq kex_loops[n]
             /\ (DecKeepalive(n) /\ keepalivers[n] = 1 /\ connections[n] = None)
                   => kex_loops'[n] = {}]_vars

(***************************************************************************)
(* What a KeepAlive changes, under SpecNet                                 *)
(***************************************************************************)
\* the KeepAlive m passes the checks of node n that do not depend on the
\* clock: a connection for the sender, and the MAC under its current MacKey
C33_Verifies(n, m) ==
    /\ connections[n] # None
    /\ MaccedInner(m.macced, connections[n][1].mac_key) # None

\* nothing of any node changes but the initting map and the send loops of n
C33_OnlyInitting(n) ==
    /\ UNCHANGED <<keepalivers, psk_to_addr, addr_to_psk, connections, ka_tasks,
                   next_key>>
    /\ initting'[Peer(n)] = initting[Peer(n)]
    /\ kex_loops'[Peer(n)] = kex_loops[Peer(n)]

MerkleFaults == {"signature", "contest_id", "timestamp"}

\* the check of a Merkle that fails, "none" for a datagram as it was sent
FaultOf(m) == IF "fault" \in DOMAIN m THEN m.fault ELSE "none"

\* the datagram m with the fault f
WithFault(m, f) ==
    [x \in DOMAIN m \cup {"fault"} |-> IF x = "fault" THEN f ELSE m[x]]

\* the network alters a Merkle in flight, one at a time
Tamper(m, f) ==
    /\ m \in network
    /\ m.kind = "Merkle"
    /\ \A x \in network : FaultOf(x) = "none"
    /\ network' = (network \ {m}) \cup {WithFault(m, f)}
    /\ UNCHANGED <<keepalivers, psk_to_addr, addr_to_psk, initting, connections,
                   kex_loops, ka_tasks, next_key, net_ret>>
    /\ UNCHANGED <<evalVars, fileVars, pureVars, clientVars, initVars>>

\* a Merkle branch that does not compare the contest id
HandleMerkleSignedAnyContest(n, m) ==
    IF FaultOf(m) \in {"none", "contest_id"}
    THEN HandleMerkle(n, m)
    ELSE HandleStale(n, m) /\ m.kind = "Merkle"

\* Net::handle_net_message, NetMessage::Merkle, from s.inner(&peer_id) on:
\* the signature under the key the message names, the timestamp, the
\* contest id, and then the branch that HandleMerkle models
HandleMerkleSigned(n, m) ==
    IF FaultOf(m) = "none"
    THEN HandleMerkle(n, m)
    ELSE HandleStale(n, m) /\ m.kind = "Merkle"

NextForged ==
    \/ \E n \in Nodes : UpdatePeerAddr(n, OwnAddr(Peer(n)))
    \/ \E n \in Nodes : IncKeepalive(n)
    \/ \E n \in Nodes : \E task \in kex_loops[n] : KexLoopSend(n, task)
    \/ \E m \in network : \E f \in MerkleFaults : Tamper(m, f)
    \/ \E n \in Nodes : \E m \in network : HandleMerkleSigned(n, m)
    \/ \E n \in Nodes : \E m \in network : HandleKeepAlive(n, m)
    \/ \E n \in Nodes : \E task \in ka_tasks[n] : KeepaliveSend(n, task)

SpecForged == InitNet /\ [][NextForged]_vars

\* node n drops the Merkle m: a failed check, or a sender the filter refuses
\* at an address n holds no initting entry for
C34_Invalid(n, m) ==
    \/ FaultOf(m) # "none"
    \/ /\ m.src \notin DOMAIN initting[n]
       /\ ~FilterAccept(n, m.who, m.src, m.entity)

\* C34: a Merkle whose signature does not verify under the key it names,
\* whose contest id is not the local one, whose timestamp is outside the
\* window, or which the filter refuses while no initting entry is present,
\* changes no state: no initting entry is made, no SecKexKey drawn or taken,
\* no connection made or changed, no task spawned, no datagram sent.
C34_InvalidMerkleDropped ==
    [][\A n \in Nodes : \A m \in network :
          (HandleMerkleSigned(n, m) /\ C34_Invalid(n, m)) =>
              /\ UNCHANGED <<keepalivers, psk_to_addr, addr_to_psk, initting,
                             connections, kex_loops, ka_tasks, next_key>>
              /\ network' = network \ {m}]_vars

\* the client has no connection and waits for the server at an address with
\* its SecKexKey untaken; a Merkle from that address that carries another
\* contest's id is at its socket
C34_Witness ==
    /\ connections["A"] = None
    /\ \E m \in network :
          /\ m.dst = OwnAddr("A")
          /\ FaultOf(m) = "contest_id"
          /\ m.src \in DOMAIN initting["A"]
          /\ initting["A"][m.src].skk # None

(***************************************************************************)
(* InitState: net/src/init.rs, with the ConnectionManager of               *)
(* net/src/connection.rs.                                                  *)
(*                                                                         *)
(* One InitState, on node A, and its one peer, whose datagrams come from   *)
(* its true address or from another one.  initting, kex_loops and next_key *)
(* of node A are the InitState's; wocs is the entry of the peer.  A call   *)
(* of get_connection that takes the Waiters arm keeps the OccupiedEntry of *)
(* wocs, a temporary of the match scrutinee in the tail expression of the  *)
(* function, until the function returns: while the call is in flight the   *)
(* entry is locked.                                                        *)
(***************************************************************************)
InitAddrs == {OwnAddr("B"), StaleAddr}
InitPeerKeys == {<<"B", 1>>, <<"B", 2>>}

\* WaitersOrConnection
WocWaiters(w) == [tag |-> "Waiters", w |-> w]
WocConnection(cm) == [tag |-> "Connection", cm |-> cm]

\* ConnectionManager::new: no AliveConnection yet
ConnectionManagerNew(ci) == [info |-> ci, alive |-> None]

\* ConnectionManager::get_connection: the AliveConnection that is there, or
\* a new one (with its keep_alive task) for the stored ConnectionInfo
cm_get_connection(cm) ==
    IF cm.alive # None THEN [cm |-> cm, c |-> cm.alive[1]]
    ELSE [cm |-> [cm EXCEPT !.alive = Some(cm.info)], c |-> cm.info]

\* ConnectionManager::update_info: the stored ConnectionInfo, and the
\* AliveConnection if one is held
update_info(cm, peer_addr, mac_key) ==
    LET ci == [mac_key |-> mac_key, peer_addr |-> peer_addr]
    IN  [info |-> ci, alive |-> IF cm.alive = None THEN None ELSE Some(ci)]

\* the entry of wocs is locked: a get_connection call is in flight
WocsLocked == \E c \in DOMAIN calls : calls[c].fn = "get_connection"

\* what no call of InitState touches
InitStateFrame ==
    /\ UNCHANGED <<keepalivers, psk_to_addr, addr_to_psk, connections, ka_tasks,
                   network>>
    /\ UNCHANGED <<queue_buffer, next_message_id, committed>>
    /\ UNCHANGED <<evalVars, fileVars, pureVars>>

\* InitState::get_connection up to the future it awaits: the Connection arm
\* returns; the Waiters arm starts the handshake if the pair has no entry
\* and pushes the cell of a new GetConnectionFuture
GetConnection(c, peer_addr) ==
    /\ c \notin DOMAIN calls
    /\ ~WocsLocked
    /\ IF wocs # None /\ wocs[1].tag = "Connection"
       THEN LET cm == wocs[1].cm
                moved == IF cm.info.peer_addr # peer_addr
                         THEN update_info(cm, peer_addr, cm.info.mac_key)
                         ELSE cm
                r == cm_get_connection(moved)
            IN  /\ wocs' = Some(WocConnection(r.cm))
                /\ net_ret' = [fn |-> "get_connection", ret |-> r.c]
                /\ UNCHANGED <<calls, initting, kex_loops, next_key>>
       ELSE /\ wocs' = Some(WocWaiters(Append(IF wocs = None THEN <<>> ELSE wocs[1].w, c)))
            /\ calls' = MapPut(calls, c, [fn |-> "get_connection", conn |-> None,
                                          waker |-> FALSE])
            /\ IF peer_addr \in DOMAIN initting["A"]
               THEN UNCHANGED <<initting, kex_loops, next_key>>
               ELSE /\ SpawnKexLoop("A", peer_addr)
                    /\ initting' = [initting EXCEPT
                                       !["A"] = MapPut(@, peer_addr, new_initting("A", peer_addr))]
            /\ net_ret' = NoCall
    /\ InitStateFrame

\* GetConnectionFuture::poll: the connection if the cell holds one, else the
\* waker is left in the cell
GetConnectionPoll(c) ==
    /\ c \in DOMAIN calls
    /\ calls[c].fn = "get_connection"
    /\ IF calls[c].conn # None
       THEN /\ calls' = MapRemove(calls, c)
            /\ net_ret' = [fn |-> "get_connection", ret |-> calls[c].conn[1]]
       ELSE /\ ~calls[c].waker
            /\ calls' = [calls EXCEPT ![c].waker = TRUE]
            /\ net_ret' = NoCall
    /\ UNCHANGED <<wocs, initting, kex_loops, next_key>>
    /\ InitStateFrame

\* the Merkle datagrams that reach the InitState: where they come from, the
\* key they carry, whether the signature verifies under the key they name,
\* the contest they are for, whether the timestamp is inside the window and
\* whether the accept closure admits the sender
InitMerkles ==
    [src : InitAddrs, pkk : InitPeerKeys, signature_ok : BOOLEAN,
     contest_id : {"own", "other"}, fresh : BOOLEAN, accept : BOOLEAN]

\* InitState::handle_net_message, NetMessage::Merkle, and finalize_connection
\* up to the entry of wocs: or_insert's argument runs whether or not the
\* entry is there; the SecKexKey is taken
InitHandleMerkle(c, m) ==
    /\ c \notin DOMAIN calls
    /\ IF m.signature_ok /\ m.fresh /\ m.accept
       THEN /\ SpawnKexLoop("A", m.src)
            /\ LET entry == IF m.src \in DOMAIN initting["A"]
                            THEN initting["A"][m.src]
                            ELSE new_initting("A", m.src)
               IN  /\ initting' = [initting EXCEPT
                                      !["A"] = MapPut(@, m.src, [entry EXCEPT !.skk = None])]
                   /\ IF entry.skk = None
                      THEN UNCHANGED calls
                      ELSE calls' = MapPut(calls, c,
                                       [fn |-> "finalize_connection",
                                        peer_addr |-> m.src,
                                        mac_key |-> diffie_hellman(entry.skk[1], m.pkk)])
       ELSE UNCHANGED <<initting, kex_loops, next_key, calls>>
    /\ net_ret' = NoCall
    /\ UNCHANGED wocs
    /\ InitStateFrame

\* InitState::finalize_connection from the entry of wocs on: an existing
\* ConnectionManager is updated; else one is made, it replaces the Waiters
\* and every waiter's cell gets the connection and is woken
FinalizeConnectionWocs(c) ==
    /\ c \in DOMAIN calls
    /\ calls[c].fn = "finalize_connection"
    /\ ~WocsLocked
    /\ IF wocs # None /\ wocs[1].tag = "Connection"
       THEN /\ wocs' = Some(WocConnection(
                          update_info(wocs[1].cm, calls[c].peer_addr, calls[c].mac_key)))
            /\ calls' = MapRemove(calls, c)
       ELSE LET w == IF wocs = None THEN <<>> ELSE wocs[1].w
                r == cm_get_connection(ConnectionManagerNew(
                         [mac_key |-> calls[c].mac_key, peer_addr |-> calls[c].peer_addr]))
            IN  /\ wocs' = Some(WocConnection(r.cm))
                /\ calls' = [d \in DOMAIN calls \ {c} |->
                                IF d \in Range(w)
                                THEN [calls[d] EXCEPT !.conn = Some(r.c)]
                                ELSE calls[d]]
    /\ net_ret' = NoCall
    /\ UNCHANGED <<initting, kex_loops, next_key>>
    /\ InitStateFrame

\* InitState::handle_net_message, NetMessage::KeepAlive, from src with a MAC
\* under mac_key and a timestamp inside the window
InitHandleKeepAlive(src, mac_key) ==
    /\ ~WocsLocked
    /\ wocs # None
    /\ wocs[1].tag = "Connection"
    /\ wocs[1].cm.info.mac_key = mac_key
    /\ src \in DOMAIN initting["A"]
    /\ initting' = [initting EXCEPT !["A"] = MapRemove(@, src)]
    /\ kex_loops' = [kex_loops EXCEPT !["A"] = @ \ {initting["A"][src].ah}]
    /\ net_ret' = NoCall
    /\ UNCHANGED <<wocs, calls, next_key>>
    /\ InitStateFrame

\* the MacKeys a KeepAlive may have been made under
InitMacKeys ==
    {diffie_hellman(<<"A", k>>, pkk) : k \in 1 .. MaxKeys, pkk \in InitPeerKeys}

NextInitState ==
    \/ \E c \in CallSlots : \E peer_addr \in InitAddrs : GetConnection(c, peer_addr)
    \/ \E c \in CallSlots : GetConnectionPoll(c)
    \/ \E c \in CallSlots : \E m \in InitMerkles : InitHandleMerkle(c, m)
    \/ \E c \in CallSlots : FinalizeConnectionWocs(c)
    \/ \E src \in InitAddrs : \E mac_key \in InitMacKeys : InitHandleKeepAlive(src, mac_key)

SpecInit == InitNet /\ [][NextInitState]_vars

\* every call that can take a step does so in the end
InitStateFairness ==
    /\ \A c \in CallSlots : WF_vars(GetConnectionPoll(c))
    /\ \A c \in CallSlots : WF_vars(FinalizeConnectionWocs(c))

SpecInitFair == SpecInit /\ InitStateFairness

\* C34 for the InitState of init.rs: a Merkle whose signature does not
\* verify, whose contest id is not the local one, whose timestamp is outside
\* the window, or which the accept closure refuses while no initting entry
\* is present, changes no state: no initting entry is made, no SecKexKey
\* drawn or taken, no connection made or changed, no task spawned.
C34_InitInvalidMerkleDropped ==
    [][\A c \in CallSlots : \A m \in InitMerkles :
          (/\ InitHandleMerkle(c, m)
           /\ \/ ~m.signature_ok
              \/ m.contest_id # "own"
              \/ ~m.fresh
              \/ ~m.accept /\ m.src \notin DOMAIN initting["A"])
             => UNCHANGED <<initting, kex_loops, next_key, wocs, calls>>]_vars

\* the call in slot c waits in get_connection
C36_Waiting(c) == c \in DOMAIN calls /\ calls[c].fn = "get_connection"

\* a valid Merkle of the peer has been taken up: its finalize_connection is
\* under way
C36_Finalizing == \E d \in DOMAIN calls : calls[d].fn = "finalize_connection"

\* C36: a get_connection made once the peer's connection is there returns
\* it without parking; a cell gets a connection only from
\* finalize_connection, once; and a get_connection that waits while a valid
\* Merkle of the peer is being finalized returns in the end: the waiter does
\* not keep finalize_connection from going on.
C36_WaitersResolved ==
    /\ [][\A c \in CallSlots : \A peer_addr \in InitAddrs :
             (GetConnection(c, peer_addr) /\ wocs # None /\ wocs[1].tag = "Connection")
                => /\ calls' = calls
                   /\ net_ret' = [fn |-> "get_connection", ret |-> wocs'[1].cm.alive[1]]]_vars
    /\ [][\A c \in CallSlots :
             (C36_Waiting(c) /\ C36_Waiting(c)' /\ calls'[c].conn # calls[c].conn)
                => calls[c].conn = None /\ calls'[c].conn # None]_vars
    /\ \A c \in CallSlots : (C36_Waiting(c) /\ C36_Finalizing) ~> ~C36_Waiting(c)

(***************************************************************************)
(* SpecOutbound: the application's calls that start a handshake, on both   *)
(* nodes and in every order, with the send loops they spawn; an address    *)
(* given for the peer is its true one or one where nobody listens.  No     *)
(* datagram is handled, so no connection is made.                          *)
(***************************************************************************)
NextOutbound ==
    \/ \E n \in Nodes : \E addr \in {OwnAddr(Peer(n)), StaleAddr} : UpdatePeerAddr(n, addr)
    \/ \E n \in Nodes : IncKeepalive(n)
    \/ \E n \in Nodes : \E task \in kex_loops[n] : KexLoopSend(n, task)

SpecOutbound == InitNet /\ [][NextOutbound]_vars

\* C35: after any calls of inc_keepalive and update_peer_addr, a node that
\* holds a count above 0 and an address for the peer and no connection has
\* an initting entry for the peer at that address, whose send loop runs.
C35_OutboundStarted ==
    \A n \in Nodes :
        (keepalivers[n] > 0 /\ psk_to_addr[n] # None /\ connections[n] = None)
            => /\ psk_to_addr[n][1] \in DOMAIN initting[n]
               /\ initting[n][psk_to_addr[n][1]].ah \in kex_loops[n]

(***************************************************************************)
(* The order of the runs of an evaluation, under SpecSandbox               *)
(***************************************************************************)
\* the runs the pipeline makes for one test, from what each stage gave: the
\* generator; the submission if the generator gave an input; the scorer if
\* the submission's result is OK
C37_StagesOf(g, sr, e) ==
    LET gr == run_gen(g, HasherNew)
    IN  gr.ran \o
        (IF gr.ret.tag # "Ok" THEN <<>>
         ELSE sr.ran \o
              (IF sr.ret.tag = "Ok" /\ sr.ret.val.tag = "OK"
               THEN run_eval(e, HasherNew).ran
               ELSE <<>>))

\* the call of evaluate_on_test that CallEvaluateOnTest makes
C37_OnTest ==
    evaluate_on_test([t \in {0} |-> input.gen],
                     [i \in {input.gen.stdout} |-> input.sub],
                     [p \in {<<0, input.sub.stdout>>} |-> input.eval],
                     TestLimits, 0, HasherNew)

\* test x of the drawn evaluate_submission: its stages, and whether it ends
\* without error
C37_TestStages(x) ==
    C37_StagesOf(input.gen[x],
                 run_sub(input.sub[input.gen[x].stdout], TestLimits, HasherNew),
                 input.eval[<<x, SubOutput>>])
C37_TestOk(x) ==
    evaluate_on_test(input.gen, input.sub, input.eval, TestLimits, x, HasherNew).ret.tag
        = "Ok"

\* the stages of the tests from x on, in increasing order of test id, up to
\* and with the first test that ends in an error
RECURSIVE C37_StagesFrom(_)
C37_StagesFrom(x) ==
    IF x >= input.testset_length THEN <<>>
    ELSE IF C37_TestOk(x) THEN C37_TestStages(x) \o C37_StagesFrom(x + 1)
    ELSE C37_TestStages(x)

\* what the drawn evaluate_on_test's generator and submission give
C37_GenOk == run_gen(input.gen, HasherNew).ret.tag = "Ok"
C37_Sub == run_sub(input.sub, TestLimits, HasherNew)
C37_SubIs(tags) ==
    C37_GenOk /\ C37_Sub.ret.tag = "Ok" /\ C37_Sub.ret.val.tag \in tags

\* one test: the order of the stages, and what a stage that did not end in
\* OK leaves of the test
C37_OneTest ==
    /\ C37_OnTest.ran = C37_StagesOf(input.gen, C37_Sub, input.eval)
    /\ ~C37_GenOk => output.ret.tag = "Err" /\ Len(C37_OnTest.ran) = 1
    /\ C37_SubIs({"TLE", "MLE", "RTE"})
          => /\ output.ret = Ok([tag |-> C37_Sub.ret.val.tag])
             /\ Len(C37_OnTest.ran) = 2
    /\ C37_SubIs({"MFO"})
          => /\ output.ret = Ok(Score(Zero))
             /\ Len(C37_OnTest.ran) = 2

\* C37: for each test id in increasing order the generator runs first, then
\* the submission on the generator's output, and the scorer only if the
\* submission's result is OK, not on TLE, MLE or RTE; a generator failure
\* makes the evaluation return an error and no later test is run; a
\* submission whose stdout cannot be recovered (MFO) gives Score(0) without
\* a run of the scorer and without an error.
C37_PipelineOrder ==
    /\ output.fn = "evaluate_on_test" => C37_OneTest
    /\ output.fn = "evaluate_submission" =>
          \A w \in Workers :
              output.rets[w] # None => output.rets[w][1].ran = C37_StagesFrom(0)

\* evaluate_on_test on a submission that ended well but whose stdout pipe
\* could not be unwrapped: Score(0)
C37_Witness ==
    /\ output.fn = "evaluate_on_test"
    /\ input.gen.result.ok
    /\ input.sub.result.ok
    /\ input.sub.pipe = "shared"
    /\ output.ret = Ok(Score(Zero))

(***************************************************************************)
(* The address Net::send uses, under SpecAddr                              *)
(***************************************************************************)
\* C38: in every reachable state, for every peer that has both a connection
\* and a psk_to_addr entry, the psk_to_addr entry (the address Net::send
\* sends to) equals the address stored in the connection.
C38_SendAddrIsConnectionAddr ==
    \A n \in Nodes :
        (connections[n] # None /\ psk_to_addr[n] # None)
            => psk_to_addr[n][1] = connections[n][1].addr

(***************************************************************************)
(* A chunk index past the last chunk, under SpecFile                       *)
(***************************************************************************)
\* C39: FileStore::add_enc_chunk(hash, i, chunk) with i at or past the number
\* of chunks of the registered partial file (every i when its size is 0)
\* returns without a panic and leaves the partial's buffer and presence
\* bitmap, and the rest of the store, unchanged.
C39_OutOfRangeRejected ==
    [][\A chunki \in ChunkIndexes, piece \in EncryptedChunks :
          (/\ tracked \in DOMAIN file_parts
           /\ chunki >= nchunks(file_parts[tracked])
           /\ AddEncChunk(tracked, chunki, piece))
             => /\ file_ret' # "panic"
                /\ file_parts' = file_parts
                /\ full_files' = full_files]_vars

(***************************************************************************)
(* The aggregate right after EvaluationInfo::new, under SpecEval           *)
(***************************************************************************)
\* info is what EvaluationInfo::new gives for its list of evaluators
C40_AsNew ==
    info = EvaluationInfoNew([i \in 1 .. Len(info) |-> info[i].evaluator])

\* C40: right after EvaluationInfo::new(evaluators), with a non-empty list
\* is_done() is false and score() is None; with an empty list is_done() is
\* true, final_score() is None and score() is Failed.
C40_InitialAggregate ==
    C40_AsNew =>
        IF Len(info) > 0
        THEN /\ ~is_done(info)
             /\ score(info) = [tag |-> "None"]
        ELSE /\ is_done(info)
             /\ final_score(info) = None
             /\ score(info) = [tag |-> "Failed"]

\* a new EvaluationInfo over two or more evaluators: not done, no score
C40_Witness ==
    /\ Len(info) >= 2
    /\ C40_AsNew
    /\ ~is_done(info)
    /\ score(info).tag = "None"

====
